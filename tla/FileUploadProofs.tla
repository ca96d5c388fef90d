--------------------------- MODULE FileUploadProofs ---------------------------
(* Proofs about FileUpload: types, and what the form and the display have. *)
EXTENDS FileUpload, TLAPS

\* What the form has was selected once, be it the file or its content.
ValueWasSelected == value # None => value.selection \in DOMAIN selected

Inv ==
    /\ TypeOK
    /\ ValueWasSelected
    /\ BareFilesAreBeingRead
    /\ ShownIsStored

-----------------------------------------------------------------------------
\* At first nothing is selected, read or shown.
LEMMA InitInv == Init => Inv
<1> SUFFICES ASSUME Init PROVE Inv
    OBVIOUS
<1> USE SelectionsAssumption DEF Init
<1>1. TypeOK
  <2>1. photo \in BOOLEAN /\ readOnly \in BOOLEAN /\ showPreview \in BOOLEAN /\ alive \in BOOLEAN
    BY Zenon
  <2>2. selected \in Seq(File \ Oversized) /\ Len(selected) <= MaxSelections
    OBVIOUS
  <2>3. /\ reads \subseteq DOMAIN selected
        /\ value \in Value \cup {None}
        /\ touched \in BOOLEAN /\ emitted \in BOOLEAN
        /\ shown \in File \cup {None, "url"} /\ unseen \in BOOLEAN
    OBVIOUS
  <2> QED
    BY <2>1, <2>2, <2>3 DEF TypeOK
<1>2. ValueWasSelected /\ BareFilesAreBeingRead /\ ShownIsStored
  BY DEF ValueWasSelected, BareFilesAreBeingRead, ShownIsStored
<1> QED
  BY <1>1, <1>2 DEF Inv

\* A file that is not too large is appended to the selections, and its reader
\* runs when the form gets it.
LEMMA HandleFileSelectedInv ==
    ASSUME Inv, NEW f \in File, HandleFileSelected(f) PROVE Inv'
<1> DEFINE next == Len(selected) + 1
<1>1. f \in File \ Oversized
  BY DEF HandleFileSelected, OnFileSizeExceeded
<1>2. /\ selected \in Seq(File \ Oversized)
      /\ next \in 1..MaxSelections
  BY SelectionsAssumption DEF Inv, TypeOK, HandleFileSelected
<1>3. /\ selected' = Append(selected, f)
      /\ selected' \in Seq(File \ Oversized)
      /\ Len(selected') = next
      /\ DOMAIN selected' = 1..next
      /\ DOMAIN selected = 1..Len(selected)
  BY <1>1, <1>2 DEF HandleFileSelected, DispatchFileSelected
<1>4. /\ reads' = reads \cup {next}
      /\ value' = [read |-> FALSE, selection |-> next, content |-> "none"]
      /\ UNCHANGED <<photo, readOnly, showPreview, alive, touched, emitted, shown, unseen>>
  BY DEF HandleFileSelected, DispatchFileSelected, ValueChangeObserver, inputs, display
<1>5. value' \in Value
  BY <1>2, <1>4 DEF Value
<1>6. TypeOK'
  <2>1. reads' \subseteq DOMAIN selected'
    BY <1>2, <1>3, <1>4 DEF Inv, TypeOK
  <2> QED
    BY <1>2, <1>3, <1>4, <1>5, <2>1 DEF Inv, TypeOK
<1>7. ValueWasSelected'
  BY <1>2, <1>3, <1>4 DEF ValueWasSelected
<1>8. BareFilesAreBeingRead' /\ ShownIsStored'
  BY <1>4 DEF BareFilesAreBeingRead, ShownIsStored
<1> QED
  BY <1>6, <1>7, <1>8 DEF Inv

\* The form gets the content of a file together with its display.
LEMMA ReadEndsInv == ASSUME Inv, NEW r \in reads, ReadEnds(r) PROVE Inv'
<1> PICK content \in {"base64", "null"} : LoadEnd(r, content)
    BY DEF ReadEnds
<1>1. /\ reads' = reads \ {r}
      /\ UNCHANGED <<photo, readOnly, showPreview, alive, selected>>
  BY DEF ReadEnds, LoadEnd, inputs
<1>2. /\ r \in DOMAIN selected /\ r \in 1..MaxSelections
      /\ selected[r] \in File
  BY SelectionsAssumption DEF Inv, TypeOK
<1>3. CASE alive
  <2>1. /\ value' = [read |-> TRUE, selection |-> r, content |-> content]
        /\ touched' = TRUE /\ emitted' = TRUE
        /\ \/ shown' = DisplayOf(selected[r], content) /\ unseen' = FALSE
           \/ shown' = shown /\ unseen' = TRUE
    BY <1>3 DEF LoadEnd, ValueChangeObserver, OnFileReadEnd
  <2>2. value' \in Value
    BY <1>2, <2>1 DEF Value
  <2>3. DisplayOf(selected[r], content) \in File \cup {None}
    BY <1>2 DEF DisplayOf
  <2>4. TypeOK'
    BY <1>1, <1>2, <2>1, <2>2, <2>3 DEF Inv, TypeOK
  <2>5. DisplayOf(selected[r], content)' = DisplayOf(selected[r], content)
    BY <1>1 DEF DisplayOf
  <2>6. ValueWasSelected' /\ BareFilesAreBeingRead' /\ ShownIsStored'
    BY <1>1, <1>2, <2>1, <2>5 DEF ValueWasSelected, BareFilesAreBeingRead, ShownIsStored, DisplayOf
  <2> QED
    BY <2>4, <2>6 DEF Inv
<1>4. CASE ~alive
  <2>1. UNCHANGED <<value, touched, emitted, shown, unseen>>
    BY <1>4 DEF LoadEnd, form, display
  <2>2. TypeOK' /\ ValueWasSelected'
    BY <1>1, <2>1 DEF Inv, TypeOK, ValueWasSelected
  <2>3. BareFilesAreBeingRead' /\ ShownIsStored'
    BY <1>1, <1>4 DEF BareFilesAreBeingRead, ShownIsStored
  <2> QED
    BY <2>2, <2>3 DEF Inv
<1> QED
  BY <1>3, <1>4

\* The page around the control takes the value away, if anything.
LEMMA PageInv ==
    ASSUME Inv, Reset \/ SetDisabledState \/ ChangeUrl \/ SetPhotoInputs \/ Destroy
    PROVE  Inv'
<1> USE DEF Inv, TypeOK, ValueWasSelected, BareFilesAreBeingRead, ShownIsStored, DisplayOf, inputs,
             form, display
<1>1. CASE Reset
  BY <1>1 DEF Reset
<1>2. CASE SetDisabledState
  BY <1>2 DEF SetDisabledState, ValueChangeObserver
<1>3. CASE ChangeUrl
  BY <1>3 DEF ChangeUrl
<1>4. CASE SetPhotoInputs
  BY <1>4 DEF SetPhotoInputs
<1>5. CASE Destroy
  BY <1>5 DEF Destroy
<1> QED
  BY <1>1, <1>2, <1>3, <1>4, <1>5

\* Every step keeps the invariant.
LEMMA NextInv == ASSUME Inv, [Next]_vars PROVE Inv'
<1>1. CASE UNCHANGED vars
  BY <1>1 DEF vars, inputs, form, Inv, TypeOK, ValueWasSelected, BareFilesAreBeingRead,
      ShownIsStored, DisplayOf, display
<1>2. CASE Next
  BY <1>2, HandleFileSelectedInv, ReadEndsInv, PageInv DEF Next
<1> QED
  BY <1>1, <1>2

-----------------------------------------------------------------------------
\* The invariant holds always.
LEMMA AlwaysInv == Spec => []Inv
  BY InitInv, NextInv, PTL DEF Spec

\* The state has its types in every reachable state: no file above the limit is
\* ever read (handleFileSelected).
THEOREM TypeCorrect == Spec => []TypeOK
<1>1. Inv => TypeOK
  BY DEF Inv
<1> QED
  BY <1>1, AlwaysInv, PTL

\* A bare file is in the form only while its reader runs (dispatchFileSelected).
THEOREM BareFilesRead == Spec => []BareFilesAreBeingRead
<1>1. Inv => BareFilesAreBeingRead
  BY DEF Inv
<1> QED
  BY <1>1, AlwaysInv, PTL

\* What is shown belongs to the content in the form, in whatever order any number
\* of reads ends, with content or without; the page around may replace it, or ask
\* for no preview (the loadend handler, PhotoUploadComponent.onFileReadEnd).
THEOREM ShownStored == Spec => []ShownIsStored
<1>1. Inv => ShownIsStored
  BY DEF Inv
<1> QED
  BY <1>1, AlwaysInv, PTL

\* A read-only photo is not replaced once its reads have ended
\* (PhotoUploadComponent.handleFileSelected).
THEOREM ReadOnlyPhotosStay == Spec => ReadOnlyStays
<1> DEFINE Stays == photo /\ readOnly /\ reads = {} => value' \in {value, None}
<1>1. ASSUME [Next]_vars PROVE Stays
  <2> SUFFICES ASSUME photo, readOnly, reads = {} PROVE value' \in {value, None}
      OBVIOUS
  <2>1. ~ \E f \in File : HandleFileSelected(f)
    BY DEF HandleFileSelected, AcceptsSelection
  <2>2. CASE Reset \/ SetDisabledState
    BY <2>2 DEF Reset, SetDisabledState, ValueChangeObserver
  <2>3. CASE ChangeUrl \/ SetPhotoInputs \/ Destroy \/ UNCHANGED vars
    BY <2>3 DEF ChangeUrl, SetPhotoInputs, Destroy, vars, form
  <2> QED
    BY <1>1, <2>1, <2>2, <2>3 DEF Next
<1>2. [Next]_vars => [photo /\ readOnly /\ reads = {} => value' \in {value, None}]_vars
  BY <1>1
<1> QED
  BY <1>2, PTL DEF Spec, ReadOnlyStays
=============================================================================
