----------------------------- MODULE CoverPicker ------------------------------
(* Choosing a picture: the cover of a project or a system, in their forms    *)
(* ("form", where the section can be hidden) and in the dialog that changes  *)
(* the cover alone ("modal"), and the photo of the profile ("avatar"). It is *)
(* one of three: an upload of the user's library, a stock image that is      *)
(* downloaded first, or a file of the user's, which an avatar crops first.   *)
(* Downloads, removals from the library and the form itself are on their way *)
(* while the user goes on choosing. What the API answers is left open: any    *)
(* upload may be in the library, and it may be full at any time.             *)
EXTENDS Naturals, FiniteSets

CONSTANTS
    Uploads,           \* bound: what can be in the library
    Pictures, Images,  \* files of the user, stock images
    MaxRequests        \* bound: downloads, and removals, on their way at once

None == "none"

ASSUME CoverAssumption ==
    /\ MaxRequests \in Nat
    /\ None \notin Uploads \union Pictures \union Images

VARIABLES
    kind,      \* which of the three forms this is
    cover,     \* the form: its values and whether it is open, expanded, in error
    pane,      \* CoverUpload, CoverStockPicker and CoverLibraryPicker
    picks,     \* downloads on their way
    crops,     \* files whose crop is being drawn
    removals,  \* removals on their way
    sending,   \* whether the form is on its way
    hidden     \* history: the pane was hidden over a download

coverVars == <<kind, cover, pane, picks, crops, removals, sending, hidden>>

NewForm == [open |-> FALSE, expanded |-> FALSE, file |-> None, upload |-> None,
            remove |-> FALSE, submitted |-> FALSE, error |-> FALSE]
NewPane == [tab |-> "library", stock |-> None, picking |-> FALSE, target |-> None,
            crop |-> None, step |-> "none"]

Tabs == IF kind = "avatar" THEN {"library", "file"} ELSE {"library", "stock", "file"}
Visible(c) == c.open /\ (kind = "form" => c.expanded \/ c.error)

CoverInit ==
    /\ kind \in {"form", "modal", "avatar"}
    /\ cover = [NewForm EXCEPT !.open = (kind = "avatar")]
    /\ pane = NewPane
    /\ picks = {} /\ crops = {} /\ removals = {}
    /\ sending = FALSE /\ hidden = FALSE

-----------------------------------------------------------------------------
\* A pane that is hidden is unmounted and forgets everything. What it began
\* goes on, and still reaches the values of its form; those of a "form" go with
\* its dialog, those of the "modal" are kept.
Left(r, values) == [r EXCEPT !.by = "left", !.was = IF values THEN @ ELSE None]
Render(c, p, ps, rs) ==
    LET values == kind = "form" => c.open IN
    /\ cover' = c
    /\ IF Visible(c)
       THEN /\ pane' = p /\ picks' = ps /\ removals' = rs
            /\ UNCHANGED hidden
       ELSE /\ pane' = NewPane
            /\ picks' = IF values THEN {[d EXCEPT !.live = FALSE] : d \in ps} ELSE {}
            /\ removals' = {Left(r, values) : r \in rs}
            /\ hidden' = (picks' # {} \/ (c.open /\ hidden))

\* A form that was submitted is validated at every change; of the two changes
\* a handler makes, react-hook-form may see one or both.
Validated(c) == {[c EXCEPT !.error = e] : e \in IF c.submitted THEN BOOLEAN ELSE {c.error}}
Change(c, p, ps, rs) == \E v \in Validated(c) : Render(v, p, ps, rs)
Touch(p) == Render(cover, p, picks, removals)

WithFile(c, f) ==
    [c EXCEPT !.file = f, !.upload = IF kind = "avatar" /\ f # None THEN None ELSE @]

Removing == \E r \in removals : r.by # "left"
Here(tab) == Visible(cover) /\ pane.tab = tab

-----------------------------------------------------------------------------
\* The dialogs, and the section that hides itself unless it has an error.
Open ==
    /\ ~cover.open
    /\ Render([NewForm EXCEPT !.open = TRUE], NewPane, picks, removals)
    /\ UNCHANGED <<kind, crops, sending>>

CancelForm ==
    /\ cover.open /\ kind # "avatar"
    /\ Render([cover EXCEPT !.open = FALSE], pane, picks, removals)
    /\ UNCHANGED <<kind, crops, sending>>

Expand ==
    /\ cover.open /\ kind = "form"
    /\ Render([cover EXCEPT !.expanded = ~@], pane, picks, removals)
    /\ UNCHANGED <<kind, crops, sending>>

\* The picker of the library is mounted with its tab.
ShowTab(tab) ==
    /\ Visible(cover) /\ tab \in Tabs \ {pane.tab}
    /\ Render(cover, [pane EXCEPT !.tab = tab, !.target = None], picks,
              {[r EXCEPT !.by = IF @ = "picker" THEN "pane" ELSE @] : r \in removals})
    /\ UNCHANGED <<kind, crops, sending>>

\* handleSelectUpload: an upload takes the place of file and stock image.
SelectUploadOnly(u) ==
    /\ Here("library") /\ ~pane.picking /\ ~Removing
    /\ Change([cover EXCEPT !.upload = IF @ = u THEN None ELSE u], pane, picks, removals)
    /\ UNCHANGED <<kind, crops, sending>>
SelectUpload(u) ==
    /\ Here("library") /\ ~pane.picking /\ ~Removing
    /\ IF cover.upload = u
       THEN Change([cover EXCEPT !.upload = None], pane, picks, removals)
       ELSE Change([cover EXCEPT !.file = None, !.upload = u],
                   [pane EXCEPT !.stock = None], picks, removals)
    /\ UNCHANGED <<kind, crops, sending>>

\* handleFileChange, which does nothing where the library is full.
ChooseFile(f) ==
    /\ Here("file") /\ ~pane.picking
    /\ LET c == [cover EXCEPT !.upload = None]
           p == [pane EXCEPT !.stock = None] IN
       IF kind = "avatar"
       THEN Change(c, [p EXCEPT !.crop = f, !.step = "loading"], picks, removals)
       ELSE Change([c EXCEPT !.file = f], p, picks, removals)
    /\ UNCHANGED <<kind, crops, sending>>

RemoveFile ==
    /\ Here("file") /\ cover.file # None
    /\ Change([cover EXCEPT !.file = None, !.upload = None],
              [pane EXCEPT !.stock = None], picks, removals)
    /\ UNCHANGED <<kind, crops, sending>>

-----------------------------------------------------------------------------
\* handlePickStockImage: the upload goes at once, the file comes later. The
\* image that is selected is taken back instead.
PickStock(i) ==
    /\ Here("stock") /\ ~pane.picking
    /\ \/ /\ pane.stock = i
          /\ Change([cover EXCEPT !.file = None], [pane EXCEPT !.stock = None], picks, removals)
       \/ /\ pane.stock # i   \* libraryAtLimit
          /\ Touch([pane EXCEPT !.stock = None])
       \/ /\ pane.stock # i
          /\ Cardinality(picks) < MaxRequests
          /\ Change([cover EXCEPT !.upload = None], [pane EXCEPT !.picking = TRUE],
                    picks \union {[image |-> i, live |-> TRUE]}, removals)
    /\ UNCHANGED <<kind, crops, sending>>

PickLands(d) ==
    /\ Change(WithFile(cover, d.image),
              IF d.live THEN [pane EXCEPT !.stock = d.image, !.picking = FALSE] ELSE pane,
              picks \ {d}, removals)
    /\ UNCHANGED <<kind, crops, sending>>

PickFails(d) ==
    /\ Change(WithFile(cover, None),
              IF d.live THEN [pane EXCEPT !.stock = None, !.picking = FALSE] ELSE pane,
              picks \ {d}, removals)
    /\ UNCHANGED <<kind, crops, sending>>

\* AvatarCropDialog: it cannot be left while it draws, but another file can be
\* chosen under it, which mounts a new one.
AdjustCrop ==
    /\ kind = "avatar" /\ Here("file") /\ cover.file # None
    /\ Touch([pane EXCEPT !.crop = cover.file, !.step = "loading"])
    /\ UNCHANGED <<kind, crops, sending>>

CropLoads ==
    /\ pane.step = "loading"
    /\ \E step \in {"ready", "error"} : Touch([pane EXCEPT !.step = step])
    /\ UNCHANGED <<kind, crops, sending>>

ConfirmCrop ==
    /\ pane.step = "ready"
    /\ crops' = crops \union {pane.crop}
    /\ Touch([pane EXCEPT !.step = "saving"])
    /\ UNCHANGED <<kind, sending>>

CropDrawn(f) ==
    /\ crops' = crops \ {f}
    /\ \/ Change(WithFile(cover, f), [pane EXCEPT !.crop = None, !.step = "none"], picks, removals)
       \/ Touch([pane EXCEPT !.step = IF pane.crop = f /\ @ = "saving" THEN "error" ELSE @])
    /\ UNCHANGED <<kind, sending>>

CancelCrop ==
    /\ pane.step \in {"loading", "ready", "error"}
    /\ Touch([pane EXCEPT !.crop = None, !.step = "none",
                          !.stock = IF cover.file = None THEN None ELSE @])
    /\ UNCHANGED <<kind, crops, sending>>

-----------------------------------------------------------------------------
\* The dialog that removes an upload from the library.
Pending == \E r \in removals : r.by = "picker"

AskRemoval(u) ==
    /\ Here("library") /\ ~pane.picking /\ ~Removing
    /\ Touch([pane EXCEPT !.target = u])
    /\ UNCHANGED <<kind, crops, sending>>

CancelRemoval ==
    /\ pane.target # None /\ ~Pending
    /\ Touch([pane EXCEPT !.target = None])
    /\ UNCHANGED <<kind, crops, sending>>

RemoveUpload ==
    /\ pane.target # None /\ ~Pending
    /\ Cardinality(removals) < MaxRequests
    /\ Render(cover, pane, picks,
              removals \union {[id |-> pane.target, was |-> cover.upload,
                                by |-> "picker"]})
    /\ UNCHANGED <<kind, crops, sending>>

\* The selection that is taken back is the one of when it was confirmed.
RemovalLands(r) ==
    /\ \E done \in BOOLEAN :
         Change([cover EXCEPT !.upload = IF done /\ r.was = r.id THEN None ELSE @],
                [pane EXCEPT !.target = IF done /\ r.by = "picker" THEN None ELSE @],
                picks, removals \ {r})
    /\ UNCHANGED <<kind, crops, sending>>

-----------------------------------------------------------------------------
\* "Remover foto" takes back what was chosen instead of it.
RemoveAvatar ==
    /\ kind = "avatar"
    /\ LET c == [cover EXCEPT !.remove = ~@] IN
       Change(IF c.remove THEN [c EXCEPT !.file = None, !.upload = None] ELSE c,
              pane, picks, removals)
    /\ UNCHANGED <<kind, crops, sending>>

\* The schemas refuse two sources, and some files; the modal needs a source.
\* Other fields of a form may be wrong as well.
Wrong(c) ==
    \/ kind # "avatar" /\ c.file # None /\ c.upload # None
    \/ kind = "modal" /\ c.file = None /\ c.upload = None

Submit ==
    /\ cover.open /\ ~sending
    /\ \E error \in BOOLEAN :
         /\ Wrong(cover) => error
         /\ error => Wrong(cover) \/ cover.file # None
         /\ Render([cover EXCEPT !.submitted = TRUE, !.error = error], pane, picks, removals)
         /\ sending' \in IF error THEN {FALSE} ELSE BOOLEAN
    /\ UNCHANGED <<kind, crops>>

\* A success closes the dialog, also one that was opened again; the profile
\* keeps its form as it is. A refusal may name a source as the error; the form
\* of the "modal" takes it after it was opened again, too.
SubmitLands ==
    /\ sending /\ sending' = FALSE
    /\ \/ kind # "avatar" /\ Render([cover EXCEPT !.open = FALSE], pane, picks, removals)
       \/ \E e \in BOOLEAN :
            /\ e => cover.submitted \/ kind = "modal"
            /\ Render([cover EXCEPT !.error = @ \/ e], pane, picks, removals)
    /\ UNCHANGED <<kind, crops>>

CoverNext ==
    \/ Open \/ CancelForm \/ Expand \/ \E tab \in Tabs : ShowTab(tab)
    \/ \E u \in Uploads : SelectUpload(u) \/ AskRemoval(u)
    \/ \E f \in Pictures : ChooseFile(f)
    \/ RemoveFile
    \/ \E i \in Images : PickStock(i)
    \/ \E d \in picks : PickLands(d) \/ PickFails(d)
    \/ AdjustCrop \/ CropLoads \/ ConfirmCrop \/ CancelCrop
    \/ \E f \in crops : CropDrawn(f)
    \/ CancelRemoval \/ RemoveUpload
    \/ \E r \in removals : RemovalLands(r)
    \/ RemoveAvatar
    \/ Submit \/ SubmitLands

CoverSpec == CoverInit /\ [][CoverNext]_coverVars
-----------------------------------------------------------------------------
CoverTypeOK ==
    /\ sending \in BOOLEAN
    /\ cover.file \in Pictures \union Images \union {None}
    /\ cover.upload \in Uploads \union {None}
    /\ {cover.open, cover.expanded, cover.remove, cover.submitted, cover.error} \subseteq BOOLEAN
    /\ cover.error => cover.submitted \/ kind = "modal"
    /\ pane.tab \in Tabs
    /\ pane.stock \in Images \union {None} /\ pane.target \in Uploads \union {None}
    /\ pane.picking = (\E d \in picks : d.live)
    /\ pane.crop = None <=> pane.step = "none"
    /\ pane.crop # None => kind = "avatar"
    /\ picks \subseteq [image : Images, live : BOOLEAN]
    /\ crops \subseteq Pictures

\* "Escolha apenas um: enviar arquivo novo ou imagem da biblioteca." (the
\* schemas): the pane itself keeps to one source, and to the stock image it
\* highlights, whatever lands while the user goes on; a form whose section was
\* hidden, or that was closed, over a download may have two.
OneSource ==
    cover.open /\ ~hidden =>
        /\ cover.file = None \/ cover.upload = None
        /\ pane.stock # None => pane.stock = cover.file
=============================================================================
