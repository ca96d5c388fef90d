------------------------------ MODULE FileUpload ------------------------------
(***************************************************************************)
(* The two upload controls of the shared module, for files and for photos: *)
(* both give the form they are part of the file at once, and its content   *)
(* when a FileReader has read it.  Reads are not cancelled, and end in any *)
(* order.                                                                  *)
(***************************************************************************)
EXTENDS Naturals, Sequences

CONSTANTS
    File,
    Oversized,       \* files above environment.fileSizeLimitBytes
    None,
    MaxSelections    \* bounds the files that are read

ASSUME OversizedAssumption == Oversized \subseteq File
ASSUME UploadNoneAssumption == None \notin File
ASSUME SelectionsAssumption == MaxSelections \in Nat

VARIABLES
    photo,       \* a PhotoUploadComponent, else a FileUploadComponent
    readOnly,    \* inputs of the photo component
    showPreview,
    alive,       \* not destroyed
    selected,    \* the files that were read, by selection
    reads,       \* the selections whose reader has not ended
    value,       \* what the form has
    touched,     \* whether the form takes the control for touched
    emitted,     \* whether valueChanges of the inner control emitted already
    shown,       \* displayFileName or previewSrc; "url": as the page around gave it
    unseen       \* history: the content in the form came when no preview was asked for

inputs == <<photo, readOnly, showPreview, alive>>
form == <<value, touched, emitted>>
display == <<shown, unseen>>
vars == <<inputs, selected, reads, form, display>>

\* A File, or the Base64FileData made of it; content is null after an error.
Value == [read : BOOLEAN, selection : 1..MaxSelections, content : {"none", "base64", "null"}]

TypeOK ==
    /\ photo \in BOOLEAN /\ readOnly \in BOOLEAN /\ showPreview \in BOOLEAN /\ alive \in BOOLEAN
    /\ selected \in Seq(File \ Oversized) /\ Len(selected) <= MaxSelections
    /\ reads \subseteq DOMAIN selected
    /\ value \in Value \cup {None}
    /\ touched \in BOOLEAN /\ emitted \in BOOLEAN
    /\ shown \in File \cup {None, "url"} /\ unseen \in BOOLEAN

Init ==
    /\ photo \in BOOLEAN
    /\ readOnly \in (IF photo THEN BOOLEAN ELSE {FALSE})
    /\ showPreview \in (IF photo THEN BOOLEAN ELSE {TRUE})
    /\ alive = TRUE
    /\ selected = <<>> /\ reads = {}
    /\ value = None /\ touched = FALSE /\ emitted = FALSE
    /\ shown = None /\ unseen = FALSE

-----------------------------------------------------------------------------
(* Selection *)

\* The form learns of a value through the callback that it registered.
ValueChangeObserver(newValue) == value' = newValue

\* Mutant: both components tell the base to go on.
OnFileSizeExceededIgnored(f) == FALSE

\* Both components show an error and tell the base to stop.
OnFileSizeExceeded(f) == f \in Oversized

DispatchFileSelected(f) ==
    /\ selected' = Append(selected, f)
    /\ reads' = reads \cup {Len(selected) + 1}

\* PhotoUploadComponent.handleFileSelected; whether the form disabled the
\* control is not asked.
AcceptsSelection == ~(photo /\ readOnly)

HandleFileSelected(f) ==
    /\ alive /\ AcceptsSelection
    /\ Len(selected) < MaxSelections
    /\ ~OnFileSizeExceeded(f)
    /\ DispatchFileSelected(f)
    /\ ValueChangeObserver([read |-> FALSE, selection |-> Len(selected) + 1,
                            content |-> "none"])
    /\ UNCHANGED <<inputs, touched, emitted, display>>

-----------------------------------------------------------------------------
(* The end of a read *)

\* The file component shows the name, whatever was read; the photo is shown by
\* its content, of which there is none after an error.
DisplayOf(f, content) == IF photo /\ content = "null" THEN None ELSE f

\* Mutant: what was selected last.
OnFileReadEndOfLast(f, content) ==
    IF showPreview THEN shown' = DisplayOf(selected[Len(selected)], content) /\ unseen' = FALSE
    ELSE unseen' = TRUE /\ UNCHANGED shown

OnFileReadEnd(f, content) ==
    IF showPreview THEN shown' = DisplayOf(f, content) /\ unseen' = FALSE
    ELSE unseen' = TRUE /\ UNCHANGED shown

\* Mutant: "load" is awaited instead of "loadend".
LoadEndUnlessFailed(r, content) ==
    /\ reads' = reads \ {r}
    /\ IF alive /\ content = "base64"
       THEN /\ ValueChangeObserver([read |-> TRUE, selection |-> r, content |-> content])
            /\ touched' = TRUE /\ emitted' = TRUE
            /\ OnFileReadEnd(selected[r], content)
       ELSE UNCHANGED <<form, display>>

\* The inner control has a new object, so valueChanges tells it, and
\* statusChanges that it was touched, until the component is destroyed.
LoadEnd(r, content) ==
    /\ reads' = reads \ {r}
    /\ IF alive
       THEN /\ ValueChangeObserver([read |-> TRUE, selection |-> r, content |-> content])
            /\ touched' = TRUE /\ emitted' = TRUE
            /\ OnFileReadEnd(selected[r], content)
       ELSE UNCHANGED <<form, display>>

ReadEnds(r) ==
    /\ r \in reads
    /\ \E content \in {"base64", "null"} : LoadEnd(r, content)
    /\ UNCHANGED <<inputs, selected>>

-----------------------------------------------------------------------------
(* The page around it *)

\* writeValue does nothing: a form that is reset leaves the display alone.
Reset ==
    /\ value # None
    /\ value' = None /\ touched' = FALSE
    /\ UNCHANGED <<inputs, selected, reads, emitted, display>>

\* The inner control emits its value when it is disabled or enabled; only the
\* first, null before any content, gets past distinctUntilChanged.  No template
\* asks whether it is disabled: files can be selected as before.
SetDisabledState ==
    /\ alive
    /\ touched' = TRUE /\ emitted' = TRUE
    /\ IF emitted THEN UNCHANGED value ELSE ValueChangeObserver(None)
    /\ UNCHANGED <<inputs, selected, reads, display>>

\* The page around it sets fileUrl or previewSrc.
ChangeUrl ==
    /\ alive
    /\ shown' = "url"
    /\ UNCHANGED <<inputs, selected, reads, form, unseen>>

SetPhotoInputs ==
    /\ alive /\ photo
    /\ readOnly' \in BOOLEAN /\ showPreview' \in BOOLEAN
    /\ UNCHANGED <<photo, alive, selected, reads, form, display>>

Destroy ==
    /\ alive
    /\ alive' = FALSE
    /\ UNCHANGED <<photo, readOnly, showPreview, selected, reads, form, display>>

Next ==
    \/ \E f \in File : HandleFileSelected(f)
    \/ \E r \in reads : ReadEnds(r)
    \/ Reset \/ SetDisabledState \/ ChangeUrl \/ SetPhotoInputs \/ Destroy

\* Every reader ends, with a result or an error.
Fairness == \A r \in 1..MaxSelections : WF_vars(ReadEnds(r))

Spec == Init /\ [][Next]_vars /\ Fairness

-----------------------------------------------------------------------------
(* Properties *)

\* A form has a bare file only while the reader of that very file runs, however
\* many were selected and whichever reads end first (dispatchFileSelected).
BareFilesAreBeingRead ==
    alive /\ value # None /\ ~value.read => value.selection \in reads

\* The name or the preview is that of the content in the form, also when reads
\* overtook each other or failed, unless the page around replaced it or asked for
\* no preview when that content came (the loadend handler).
ShownIsStored ==
    alive /\ value # None /\ value.read /\ ~unseen =>
        shown \in {DisplayOf(selected[value.selection], value.content), "url"}

\* A read-only photo with no read in flight is not replaced; the form can only
\* be reset (PhotoUploadComponent.handleFileSelected).
ReadOnlyStays ==
    [][photo /\ readOnly /\ reads = {} => value' \in {value, None}]_vars

\* A form does not keep a bare file, which the API could not read, unless the
\* control is destroyed before its read ends (dispatchFileSelected).
BareFilesAreReplaced ==
    value # None /\ ~value.read ~> value = None \/ value.read \/ ~alive
=============================================================================
