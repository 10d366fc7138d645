---------------------------- MODULE BrandingProofs ----------------------------
(***************************************************************************)
(* What holds of Branding for any owners, kinds of images, files and       *)
(* requests.                                                               *)
(***************************************************************************)
EXTENDS Branding, TLAPS

-----------------------------------------------------------------------------
(* The inductive invariant *)

New(c) == call[c].pc \in {"row", "attach"}

\* What a request's data are at each of its steps.
CallOK(row) ==
    /\ row \in CallRow
    /\ IF row.pc = "idle" THEN row.owner = NoOwner ELSE row.owner \in Owners
    /\ IF row.pc \in {"row", "attach", "undo"} THEN row.file \in Files ELSE row.file = NoFile
    /\ row.pc \in {"previous", "put", "row", "attach", "undo", "clear", "null"} =>
          row.kind \in Kinds
    /\ row.pc \in {"idle", "previous", "paint", "unpaint"} => row.doomed = {}
    /\ row.pc = "tenant" => row.owner # Platform

CallsOK == call \in [Calls -> CallRow] /\ \A c \in Calls : CallOK(call[c])
BrandingOK ==
    /\ branding \in [Owners -> Row]
    /\ \A o \in Owners : ~ branding[o].there => branding[o] = NoRow
StateTyped ==
    /\ owners \subseteq Owners /\ Platform \in owners
    /\ rows \subseteq Files
    /\ bytes \subseteq Files
    /\ owner \in [Files -> Owners \cup {NoOwner}]
    /\ failed \subseteq Files
    /\ disturbed \subseteq Owners

Typed == CallsOK /\ BrandingOK /\ StateTyped

\* Everybody deals with his owner's files ...
ImagesOwned ==
    \A o \in Owners, k \in Kinds : Image(o, k) # NoFile => owner[Image(o, k)] = o
HeldOwned ==
    \A c \in Calls : call[c].file # NoFile => owner[call[c].file] = O(c)
DoomedOwned ==
    \A c \in Calls : \A f \in call[c].doomed : owner[f] = O(c)

\* ... an uploaded file is one image at most, and before that one request's ...
OneImage ==
    \A o \in Owners : \A k, l \in Kinds :
        Image(o, k) = Image(o, l) /\ Image(o, k) # NoFile => k = l
OneHolder ==
    \A c, d \in Calls : call[c].file = call[d].file /\ call[c].file # NoFile => c = d
NewIsNoImage ==
    \A c \in Calls : New(c) =>
        \A o \in Owners, k \in Kinds : Image(o, k) # call[c].file
NewIsNotDoomed ==
    \A c, d \in Calls : New(c) /\ call[c].file \in call[d].doomed =>
        call[d].pc = "tenant" \/ O(c) \notin owners
NewIsStored ==
    \A c \in Calls : New(c) /\ O(c) \in owners =>
        /\ call[c].file \in bytes
        /\ call[c].pc = "attach" => call[c].file \in rows
UndoneFailed ==
    \A c \in Calls : call[c].pc = "undo" => call[c].file \in failed

\* ... and a file to be dropped is no image any more when its turn comes.
DoomedImage ==
    \A c \in Calls : call[c].pc \in {"put", "row", "attach", "clear", "null"} =>
        \A k \in Kinds : Image(O(c), k) \in call[c].doomed => k = K(c)
DroppedIsNoImage ==
    \A c \in Calls : call[c].pc = "drop" =>
        \A o \in Owners, k \in Kinds : Image(o, k) \notin call[c].doomed

StoredInvariant ==
    /\ ImagesOwned /\ HeldOwned /\ DoomedOwned
    /\ OneImage /\ OneHolder /\ NewIsNoImage /\ NewIsNotDoomed /\ NewIsStored /\ UndoneFailed
    /\ DoomedImage /\ DroppedIsNoImage
    /\ ReferencedIsStored

\* An owner's only request, as long as nothing has disturbed it, takes along what it
\* replaces or removes.
Alone ==
    \A c, d \in Calls : c # d /\ O(c) = O(d) /\ O(c) \in Owners => O(c) \in disturbed
Takes(c) ==
    /\ call[c].pc \in {"put", "row", "attach", "undo", "clear", "null"} =>
          call[c].doomed = Images(O(c), {K(c)})
    /\ call[c].pc \in {"remove", "reset"} => call[c].doomed = Images(O(c), Kinds)
    /\ call[c].pc = "remove" => \A k \in Kinds : k # K(c) => Image(O(c), k) = NoFile
    /\ call[c].pc = "tenant" => call[c].doomed = {f \in rows : owner[f] = O(c)}
TakesAlong == \A c \in Calls : O(c) \in Owners \ disturbed => Takes(c)

\* A file is an image, or a request's.
Left(o) == {f \in Files : owner[f] = o /\ f \in bytes \cup (rows \ failed)}
IsImage(o, f) == \E k \in Kinds : Image(o, k) = f
Has(c, f) == call[c].file = f \/ f \in call[c].doomed
Accounted ==
    \A o \in Owners \ disturbed : \A f \in Left(o) :
        IsImage(o, f) \/ \E c \in Calls : O(c) = o /\ Has(c, f)

CleanInvariant == Alone /\ TakesAlong /\ Accounted

-----------------------------------------------------------------------------
(* Data *)

LEMMA IdleOK ==
    /\ CallOK(Idle) /\ Idle.pc = "idle" /\ Idle.owner = NoOwner /\ Idle.kind = NoKind
    /\ Idle.file = NoFile /\ Idle.doomed = {}
BY BrandingAssumption DEF CallOK, Idle, CallRow, Pcs

LEMMA NoRowOK ==
    NoRow \in Row /\ ~ NoRow.there /\ ~ NoRow.colours /\ \A k \in Kinds : NoRow.image[k] = NoFile
BY DEF NoRow, Row

\* Only c's call changes, to one with these data.
Becomes(c, pc, o, k, f, S) ==
    /\ CallsOK'
    /\ \A d \in Calls : d # c => call'[d] = call[d]
    /\ call'[c].pc = pc /\ call'[c].owner = o /\ call'[c].kind = k
    /\ call'[c].file = f /\ call'[c].doomed = S

LEMMA OneCall ==
    ASSUME CallsOK, NEW c \in Calls, NEW row, CallOK(row), call' = [call EXCEPT ![c] = row]
    PROVE  Becomes(c, row.pc, row.owner, row.kind, row.file, row.doomed)
<1>1. row \in CallRow
  BY DEF CallOK
<1>2. /\ call' \in [Calls -> CallRow]
      /\ call'[c] = row /\ \A d \in Calls : d # c => call'[d] = call[d]
  BY <1>1 DEF CallsOK
<1> QED BY <1>2 DEF CallsOK, CallOK, Becomes

LEMMA Finishing ==
    ASSUME CallsOK, NEW c \in Calls, Finish(c)
    PROVE  Becomes(c, "idle", NoOwner, NoKind, NoFile, {})
<1>1. Becomes(c, Idle.pc, Idle.owner, Idle.kind, Idle.file, Idle.doomed)
  BY IdleOK, OneCall DEF Finish
<1> QED BY <1>1, IdleOK

\* A step of a request that goes on with the files it has.
LEMMA Going ==
    ASSUME CallsOK, NEW c \in Calls, NEW pc, Goto(c, pc), CallOK([call[c] EXCEPT !.pc = pc])
    PROVE  Becomes(c, pc, O(c), K(c), call[c].file, call[c].doomed)
<1> DEFINE row == [call[c] EXCEPT !.pc = pc]
<1>1. call' = [call EXCEPT ![c] = row]
  BY DEF Goto
<1>2. call[c] \in CallRow
  BY DEF CallsOK
<1>3. /\ row.pc = pc /\ row.owner = O(c) /\ row.kind = K(c)
      /\ row.file = call[c].file /\ row.doomed = call[c].doomed
  BY <1>2 DEF CallRow, O, K
<1>4. CallOK(row)
  OBVIOUS
<1> HIDE DEF row
<1>5. Becomes(c, row.pc, row.owner, row.kind, row.file, row.doomed)
  BY <1>1, <1>4, OneCall
<1> QED BY <1>3, <1>5

Dropped(c, S) ==
    IF S = {} THEN Becomes(c, "idle", NoOwner, NoKind, NoFile, {})
              ELSE Becomes(c, "drop", O(c), NoKind, NoFile, S)

LEMMA Dropping ==
    ASSUME CallsOK, NEW c \in Calls, ~ At(c, "idle"), NEW S \in SUBSET Files, Drops(c, S)
    PROVE  Dropped(c, S)
<1>1. CASE S = {}
  BY <1>1, Finishing DEF Drops, Dropped
<1>2. CASE S # {}
  <2> DEFINE row == [Idle EXCEPT !.pc = "drop", !.owner = O(c), !.doomed = S]
  <2>1. call' = [call EXCEPT ![c] = row]
    BY <1>2 DEF Drops
  <2>2. O(c) \in Owners
    BY DEF CallsOK, CallOK, At, O
  <2>3. /\ row.pc = "drop" /\ row.owner = O(c) /\ row.kind = NoKind
        /\ row.file = NoFile /\ row.doomed = S /\ row \in CallRow
    BY <2>2 DEF Idle, CallRow, Pcs
  <2> HIDE DEF row
  <2>4. CallOK(row)
    BY <2>2, <2>3 DEF CallOK
  <2>5. Becomes(c, row.pc, row.owner, row.kind, row.file, row.doomed)
    BY <2>1, <2>4, OneCall
  <2> QED BY <1>2, <2>3, <2>5 DEF Dropped
<1> QED BY <1>1, <1>2

\* How a request begins.
Begun(c, pc, o, k, S) ==
    /\ At(c, "idle") /\ o \in owners
    /\ Becomes(c, pc, o, k, NoFile, S)
    /\ disturbed' = IF \E d \in Calls : O(d) = o THEN disturbed \cup {o} ELSE disturbed

LEMMA Beginning ==
    ASSUME CallsOK, StateTyped, NEW c \in Calls, NEW row \in CallRow, Begin(c, row),
           row.pc \in {"previous", "put", "clear", "remove", "reset", "paint", "unpaint", "tenant"},
           row.pc \in {"previous", "put", "clear"} => row.kind \in Kinds,
           row.file = NoFile,
           row.pc \in {"previous", "paint", "unpaint"} => row.doomed = {},
           row.pc = "tenant" => row.owner # Platform
    PROVE  Begun(c, row.pc, row.owner, row.kind, row.doomed)
<1>1. row.owner \in Owners
  BY DEF Begin, StateTyped
<1>2. CallOK(row)
  BY <1>1 DEF CallOK
<1>3. call' = [call EXCEPT ![c] = row]
  BY DEF Begin
<1>4. Becomes(c, row.pc, row.owner, row.kind, row.file, row.doomed)
  BY <1>2, <1>3, OneCall
<1> QED BY <1>4 DEF Begun, Begin

-----------------------------------------------------------------------------
(* What the steps do, to the call, the images, and the rows *)

SameImages == \A o \in Owners, k \in Kinds : branding'[o].image[k] = Image(o, k)
OneImageSet(o, k, f) ==
    \A p \in Owners, l \in Kinds :
        branding'[p].image[l] = IF p = o /\ l = k THEN f ELSE Image(p, l)
ImagesGone(o) ==
    \A p \in Owners, k \in Kinds :
        branding'[p].image[k] = IF p = o THEN NoFile ELSE Image(p, k)

LEMMA RowFields ==
    ASSUME NEW r \in Row
    PROVE  /\ r = [there |-> r.there, colours |-> r.colours, image |-> r.image]
           /\ r.there \in BOOLEAN /\ r.colours \in BOOLEAN
           /\ r.image \in [Kinds -> Files \cup {NoFile}]
BY DEF Row

LEMMA ImageTyped ==
    ASSUME BrandingOK, NEW o \in Owners
    PROVE  /\ \A k \in Kinds : Image(o, k) \in Files \cup {NoFile}
           /\ \A S \in SUBSET Kinds : Images(o, S) \subseteq Files
           /\ ~ branding[o].there => \A k \in Kinds : Image(o, k) = NoFile
<1>1. branding[o].image \in [Kinds -> Files \cup {NoFile}]
  BY DEF BrandingOK, Row
<1>2. \A k \in Kinds : Image(o, k) \in Files \cup {NoFile}
  BY <1>1 DEF Image
<1>3. \A S \in SUBSET Kinds : Images(o, S) \subseteq Files
  BY <1>2 DEF Images
<1> QED BY <1>2, <1>3, NoRowOK DEF BrandingOK, Image

LEMMA SameBranding ==
    ASSUME BrandingOK, UNCHANGED branding
    PROVE  BrandingOK' /\ SameImages
BY DEF BrandingOK, SameImages, Image

LEMMA OneRow ==
    ASSUME BrandingOK, NEW o \in Owners, NEW row \in Row, row.there,
           branding' = [branding EXCEPT ![o] = row]
    PROVE  /\ BrandingOK'
           /\ branding'[o] = row /\ \A p \in Owners : p # o => branding'[p] = branding[p]
<1>1. /\ branding' \in [Owners -> Row]
      /\ branding'[o] = row /\ \A p \in Owners : p # o => branding'[p] = branding[p]
  BY DEF BrandingOK
<1> QED BY <1>1 DEF BrandingOK

LEMMA SettingImage ==
    ASSUME BrandingOK, NEW o \in Owners, NEW k \in Kinds, NEW f \in Files \cup {NoFile},
           \/ branding' = [branding EXCEPT ![o].there = TRUE, ![o].image[k] = f]
           \/ branding[o].there /\ branding' = [branding EXCEPT ![o].image[k] = f]
    PROVE  BrandingOK' /\ OneImageSet(o, k, f)
<1> DEFINE image == [branding[o].image EXCEPT ![k] = f]
<1>1. branding[o] \in Row /\ branding[o].image \in [Kinds -> Files \cup {NoFile}]
  BY DEF BrandingOK, Row
<1>2. PICK row \in Row : /\ row.there /\ row.image = image
                         /\ branding' = [branding EXCEPT ![o] = row]
  <2>1. CASE branding' = [branding EXCEPT ![o].there = TRUE, ![o].image[k] = f]
    <3> DEFINE row == [branding[o] EXCEPT !.there = TRUE, !.image[k] = f]
    <3>1. row \in Row /\ row.there /\ row.image = image
      BY <1>1 DEF Row
    <3>2. branding' = [branding EXCEPT ![o] = row]
      BY <2>1 DEF BrandingOK
    <3> QED BY <3>1, <3>2
  <2>2. CASE branding[o].there /\ branding' = [branding EXCEPT ![o].image[k] = f]
    <3> DEFINE row == [branding[o] EXCEPT !.image[k] = f]
    <3>1. row \in Row /\ row.there /\ row.image = image
      BY <1>1, <2>2 DEF Row
    <3>2. branding' = [branding EXCEPT ![o] = row]
      BY <2>2 DEF BrandingOK
    <3> QED BY <3>1, <3>2
  <2> QED BY <2>1, <2>2
<1>3. \A l \in Kinds : image[l] = IF l = k THEN f ELSE branding[o].image[l]
  BY <1>1
<1> HIDE DEF image
<1>4. /\ BrandingOK'
      /\ branding'[o] = row /\ \A p \in Owners : p # o => branding'[p] = branding[p]
  BY <1>2, OneRow
<1> QED BY <1>2, <1>3, <1>4 DEF OneImageSet, Image

LEMMA RemovingRow ==
    ASSUME BrandingOK, NEW o \in Owners, branding' = [branding EXCEPT ![o] = NoRow]
    PROVE  BrandingOK' /\ ImagesGone(o)
<1>1. /\ branding' \in [Owners -> Row]
      /\ branding'[o] = NoRow /\ \A p \in Owners : p # o => branding'[p] = branding[p]
  BY NoRowOK DEF BrandingOK
<1> QED BY <1>1, NoRowOK DEF BrandingOK, ImagesGone, Image

LEMMA Painting ==
    ASSUME BrandingOK, NEW o \in Owners, NEW b \in BOOLEAN,
           \/ branding' = [branding EXCEPT ![o].there = TRUE]
           \/ branding' = [branding EXCEPT ![o].there = TRUE, ![o].colours = b]
    PROVE  BrandingOK' /\ SameImages
<1>1. branding[o] \in Row
  BY DEF BrandingOK
<1>2. PICK row \in Row : /\ row.there /\ row.image = branding[o].image
                         /\ branding' = [branding EXCEPT ![o] = row]
  <2>1. CASE branding' = [branding EXCEPT ![o].there = TRUE]
    <3> DEFINE row == [branding[o] EXCEPT !.there = TRUE]
    <3>1. row \in Row /\ row.there /\ row.image = branding[o].image
      BY <1>1 DEF Row
    <3> QED BY <2>1, <3>1
  <2>2. CASE branding' = [branding EXCEPT ![o].there = TRUE, ![o].colours = b]
    <3> DEFINE row == [branding[o] EXCEPT !.there = TRUE, !.colours = b]
    <3>1. row \in Row /\ row.there /\ row.image = branding[o].image
      BY <1>1 DEF Row
    <3>2. branding' = [branding EXCEPT ![o] = row]
      BY <2>2 DEF BrandingOK
    <3> QED BY <3>1, <3>2
  <2> QED BY <2>1, <2>2
<1>3. /\ BrandingOK'
      /\ branding'[o] = row /\ \A p \in Owners : p # o => branding'[p] = branding[p]
  BY <1>2, OneRow
<1> QED BY <1>2, <1>3 DEF SameImages, Image

ImageDropped(f) ==
    \A o \in Owners, k \in Kinds :
        branding'[o].image[k] = IF Image(o, k) = f THEN NoFile ELSE Image(o, k)

LEMMA DroppingImage ==
    ASSUME BrandingOK, NEW f \in Files, branding' = Without(f)
    PROVE  BrandingOK' /\ ImageDropped(f)
<1>1. ASSUME NEW o \in Owners
      PROVE  /\ branding'[o] \in Row
             /\ branding'[o].there = branding[o].there
             /\ branding'[o].colours = branding[o].colours
             /\ branding'[o].image =
                    [k \in Kinds |-> IF Image(o, k) = f THEN NoFile ELSE Image(o, k)]
  <2> DEFINE image == [k \in Kinds |-> IF Image(o, k) = f THEN NoFile ELSE Image(o, k)]
  <2>1. image \in [Kinds -> Files \cup {NoFile}]
    BY ImageTyped
  <2>2. branding'[o] = [branding[o] EXCEPT !.image = image]
    BY DEF Without
  <2> HIDE DEF image
  <2>3. branding[o] \in Row
    BY DEF BrandingOK
  <2>4. /\ branding'[o] \in Row /\ branding'[o].there = branding[o].there
        /\ branding'[o].colours = branding[o].colours /\ branding'[o].image = image
    BY <2>1, <2>2, <2>3 DEF Row
  <2> QED BY <2>4 DEF image
<1>2. branding' \in [Owners -> Row]
  <2>1. branding' = [o \in Owners |-> branding'[o]]
    BY DEF Without
  <2> QED BY <1>1, <2>1
<1>3. ASSUME NEW o \in Owners, ~ branding'[o].there PROVE branding'[o] = NoRow
  <2>1. branding[o] = NoRow
    BY <1>1, <1>3 DEF BrandingOK
  <2>2. \A k \in Kinds : Image(o, k) = NoFile
    BY <2>1, NoRowOK DEF Image
  <2>3. branding'[o].image = [k \in Kinds |-> NoFile]
    BY <1>1, <2>2
  <2>4. branding'[o] = [there |-> FALSE, colours |-> FALSE, image |-> [k \in Kinds |-> NoFile]]
    BY <1>1, <2>1, <2>3, NoRowOK, RowFields
  <2> QED BY <2>4 DEF NoRow
<1> QED BY <1>1, <1>2, <1>3 DEF BrandingOK, ImageDropped

Kept == UNCHANGED << owners, rows, bytes, owner, failed >>

LEMMA OwnerTyped ==
    ASSUME CallsOK, NEW c \in Calls, ~ At(c, "idle")
    PROVE  /\ O(c) \in Owners /\ call[c] \in CallRow
           /\ call[c].doomed \in SUBSET Files /\ call[c].file \in Files \cup {NoFile}
BY DEF CallsOK, CallOK, CallRow, At, O

LEMMA IdleData ==
    ASSUME CallsOK, NEW c \in Calls, At(c, "idle")
    PROVE  O(c) = NoOwner /\ call[c].file = NoFile /\ call[c].doomed = {}
BY DEF CallsOK, CallOK, At, O

LEMMA UploadStarts ==
    ASSUME Typed, NEW c \in Calls, NEW o \in Owners, NEW k \in Kinds, StartUpload(c, o, k)
    PROVE  /\ BrandingOK' /\ SameImages /\ Kept
           /\ Begun(c, "previous", o, k, {}) \/ Begun(c, "put", o, k, Images(o, {k}))
<1>1. CASE o = Platform /\ ~ branding[o].there
  <2> DEFINE row == [Idle EXCEPT !.pc = "previous", !.owner = o, !.kind = k]
  <2>1. /\ row \in CallRow /\ row.pc = "previous" /\ row.owner = o /\ row.kind = k
        /\ row.file = NoFile /\ row.doomed = {}
    BY DEF Idle, CallRow, Pcs
  <2>2. Begin(c, row) /\ branding' = [branding EXCEPT ![o].there = TRUE]
    BY <1>1 DEF StartUpload, Idle
  <2> HIDE DEF row
  <2>3. Begun(c, row.pc, row.owner, row.kind, row.doomed)
    BY <2>1, <2>2, Beginning DEF Typed
  <2>4. BrandingOK' /\ SameImages
    BY <2>2, Painting DEF Typed
  <2> QED BY <2>1, <2>3, <2>4 DEF StartUpload, Kept
<1>2. CASE ~ (o = Platform /\ ~ branding[o].there)
  <2> DEFINE row == [Idle EXCEPT !.pc = "put", !.owner = o, !.kind = k,
                                 !.doomed = Images(o, {k})]
  <2>1. Images(o, {k}) \in SUBSET Files
    BY ImageTyped DEF Typed
  <2>2. /\ row \in CallRow /\ row.pc = "put" /\ row.owner = o /\ row.kind = k
        /\ row.file = NoFile /\ row.doomed = Images(o, {k})
    BY <2>1 DEF Idle, CallRow, Pcs
  <2>3. Begin(c, row) /\ UNCHANGED branding
    BY <1>2 DEF StartUpload, Idle
  <2> HIDE DEF row
  <2>4. Begun(c, row.pc, row.owner, row.kind, row.doomed)
    BY <2>2, <2>3, Beginning DEF Typed
  <2>5. BrandingOK' /\ SameImages
    BY <2>3, SameBranding DEF Typed
  <2> QED BY <2>2, <2>4, <2>5 DEF StartUpload, Kept
<1> QED BY <1>1, <1>2

LEMMA DeleteStarts ==
    ASSUME Typed, NEW c \in Calls, NEW o \in Owners, NEW k \in Kinds, StartDelete(c, o, k)
    PROVE  /\ BrandingOK' /\ SameImages /\ Kept
           /\ Begun(c, "clear", o, k, Images(o, {k}))
<1> DEFINE row == [Idle EXCEPT !.pc = "clear", !.owner = o, !.kind = k,
                               !.doomed = {Image(o, k)}]
<1>1. {Image(o, k)} = Images(o, {k}) /\ Images(o, {k}) \in SUBSET Files
  BY ImageTyped DEF Typed, StartDelete, Images
<1>2. /\ row \in CallRow /\ row.pc = "clear" /\ row.owner = o /\ row.kind = k
      /\ row.file = NoFile /\ row.doomed = Images(o, {k})
  BY <1>1 DEF Idle, CallRow, Pcs
<1>3. Begin(c, row)
  BY DEF StartDelete
<1> HIDE DEF row
<1>4. Begun(c, row.pc, row.owner, row.kind, row.doomed)
  BY <1>2, <1>3, Beginning DEF Typed
<1> QED BY <1>2, <1>4, SameBranding DEF Typed, StartDelete, Kept

LEMMA ResetStarts ==
    ASSUME Typed, NEW c \in Calls, NEW o \in Owners, StartReset(c, o)
    PROVE  /\ BrandingOK' /\ SameImages /\ Kept
           /\ Begun(c, "reset", o, NoKind, Images(o, Kinds))
<1> DEFINE row == [Idle EXCEPT !.pc = "reset", !.owner = o, !.doomed = Images(o, Kinds)]
<1>1. Images(o, Kinds) \in SUBSET Files
  BY ImageTyped DEF Typed
<1>2. /\ row \in CallRow /\ row.pc = "reset" /\ row.owner = o /\ row.kind = NoKind
      /\ row.file = NoFile /\ row.doomed = Images(o, Kinds)
  BY <1>1 DEF Idle, CallRow, Pcs
<1>3. Begin(c, row)
  BY DEF StartReset
<1> HIDE DEF row
<1>4. Begun(c, row.pc, row.owner, row.kind, row.doomed)
  BY <1>2, <1>3, Beginning DEF Typed
<1> QED BY <1>2, <1>4, SameBranding DEF Typed, StartReset, Kept

LEMMA RemovalStarts ==
    ASSUME Typed, NEW c \in Calls, NEW o \in Owners, StartRemoval(c, o)
    PROVE  /\ BrandingOK' /\ SameImages /\ Kept
           /\ Begun(c, "tenant", o, NoKind, {f \in rows : owner[f] = o})
<1> DEFINE S == {f \in rows : owner[f] = o}
           row == [Idle EXCEPT !.pc = "tenant", !.owner = o, !.doomed = S]
<1>1. S \in SUBSET Files
  BY DEF Typed, StateTyped
<1>2. /\ row \in CallRow /\ row.pc = "tenant" /\ row.owner = o /\ row.kind = NoKind
      /\ row.file = NoFile /\ row.doomed = S
  BY <1>1 DEF Idle, CallRow, Pcs
<1>3. Begin(c, row) /\ o # Platform
  BY DEF StartRemoval
<1> HIDE DEF row
<1>4. Begun(c, row.pc, row.owner, row.kind, row.doomed)
  BY <1>2, <1>3, Beginning DEF Typed
<1> QED BY <1>2, <1>4, SameBranding DEF Typed, StartRemoval, Kept

LEMMA UpdateStarts ==
    ASSUME Typed, NEW c \in Calls, NEW o \in Owners, NEW colours \in BOOLEAN,
           StartUpdate(c, o, colours)
    PROVE  /\ BrandingOK' /\ SameImages /\ Kept
           /\ \/ Begun(c, "paint", o, NoKind, {})
              \/ Begun(c, "unpaint", o, NoKind, {})
              \/ Begun(c, "remove", o, NoKind, {}) /\ \A k \in Kinds : Image(o, k) = NoFile
<1>1. ASSUME NEW pc \in {"paint", "unpaint", "remove"},
             Begin(c, [Idle EXCEPT !.owner = o, !.found = branding[o].there, !.pc = pc])
      PROVE  Begun(c, pc, o, NoKind, {})
  <2> DEFINE row == [Idle EXCEPT !.owner = o, !.found = branding[o].there, !.pc = pc]
  <2>1. branding[o].there \in BOOLEAN
    BY DEF Typed, BrandingOK, Row
  <2>2. /\ row \in CallRow /\ row.pc = pc /\ row.owner = o /\ row.kind = NoKind
        /\ row.file = NoFile /\ row.doomed = {}
    BY <2>1 DEF Idle, CallRow, Pcs
  <2>3. Begin(c, row)
    BY <1>1
  <2> HIDE DEF row
  <2>4. Begun(c, row.pc, row.owner, row.kind, row.doomed)
    BY <2>2, <2>3, Beginning DEF Typed
  <2> QED BY <2>2, <2>4
<1> DEFINE row(pc) == [Idle EXCEPT !.owner = o, !.found = branding[o].there, !.pc = pc]
<1>2. \/ Begin(c, row("paint")) \/ Begin(c, row("unpaint"))
      \/ Begin(c, row("remove")) /\ ~ Persists(o, colours, NoKind)
  BY DEF StartUpdate
<1>3. ~ Persists(o, colours, NoKind) => \A k \in Kinds : Image(o, k) = NoFile
  BY BrandingAssumption DEF Persists, Images
<1> QED BY <1>1, <1>2, <1>3, SameBranding DEF Typed, StartUpdate, Kept

LEMMA Reading ==
    ASSUME Typed, NEW c \in Calls, ReadPrevious(c)
    PROVE  /\ BrandingOK' /\ SameImages /\ Kept /\ disturbed' = disturbed
           /\ At(c, "previous")
           /\ Becomes(c, "put", O(c), K(c), NoFile, Images(O(c), {K(c)}))
<1> DEFINE S == Images(O(c), {K(c)})
           row == [call[c] EXCEPT !.pc = "put", !.doomed = S]
<1>1. /\ O(c) \in Owners /\ K(c) \in Kinds /\ call[c] \in CallRow /\ call[c].file = NoFile
  BY DEF Typed, CallsOK, CallOK, ReadPrevious, At, O, K
<1>2. S \in SUBSET Files
  BY <1>1, ImageTyped DEF Typed
<1>3. call' = [call EXCEPT ![c] = row]
  BY <1>1 DEF ReadPrevious, Typed, CallsOK
<1> HIDE DEF S
<1>4. /\ row \in CallRow /\ row.pc = "put" /\ row.owner = O(c) /\ row.kind = K(c)
      /\ row.file = NoFile /\ row.doomed = S
  BY <1>1, <1>2 DEF CallRow, Pcs, O, K
<1> HIDE DEF row
<1>5. CallOK(row)
  BY <1>1, <1>4 DEF CallOK
<1>6. Becomes(c, row.pc, row.owner, row.kind, row.file, row.doomed)
  BY <1>3, <1>5, OneCall DEF Typed
<1> QED BY <1>4, <1>6, SameBranding DEF ReadPrevious, Typed, Kept, S

LEMMA Putting ==
    ASSUME Typed, NEW c \in Calls, Put(c)
    PROVE  /\ BrandingOK' /\ SameImages /\ At(c, "put")
           /\ UNCHANGED << owners, rows, failed, disturbed >>
           /\ \E f \in Files :
                 /\ owner[f] = NoOwner /\ owner' = [owner EXCEPT ![f] = O(c)]
                 /\ bytes' = bytes \cup {f}
                 /\ Becomes(c, "row", O(c), K(c), f, call[c].doomed)
<1>1. PICK f \in Files : /\ owner[f] = NoOwner /\ owner' = [owner EXCEPT ![f] = O(c)]
                         /\ bytes' = bytes \cup {f}
                         /\ call' = [call EXCEPT ![c].pc = "row", ![c].file = f]
  BY DEF Put
<1> DEFINE row == [call[c] EXCEPT !.pc = "row", !.file = f]
<1>2. O(c) \in Owners /\ K(c) \in Kinds /\ call[c] \in CallRow
  BY DEF Typed, CallsOK, CallOK, Put, At, O, K
<1>3. call' = [call EXCEPT ![c] = row]
  BY <1>1, <1>2 DEF Typed, CallsOK
<1>4. /\ row \in CallRow /\ row.pc = "row" /\ row.owner = O(c) /\ row.kind = K(c)
      /\ row.file = f /\ row.doomed = call[c].doomed
  BY <1>2 DEF CallRow, Pcs, O, K
<1> HIDE DEF row
<1>5. CallOK(row)
  BY <1>2, <1>4 DEF CallOK
<1>6. Becomes(c, row.pc, row.owner, row.kind, row.file, row.doomed)
  BY <1>3, <1>5, OneCall DEF Typed
<1>7. Becomes(c, "row", O(c), K(c), f, call[c].doomed)
  BY <1>4, <1>6
<1>8. BrandingOK' /\ SameImages
  BY SameBranding DEF Put, Typed
<1> HIDE DEF row
<1> QED BY <1>1, <1>7, <1>8 DEF Put

LEMMA CreatingRow ==
    ASSUME Typed, NEW c \in Calls, CreateRow(c)
    PROVE  /\ BrandingOK' /\ SameImages /\ At(c, "row") /\ O(c) \in owners
           /\ UNCHANGED << owners, bytes, owner, failed, disturbed >>
           /\ rows' = rows \cup {call[c].file}
           /\ Becomes(c, "attach", O(c), K(c), call[c].file, call[c].doomed)
<1>1. CallOK([call[c] EXCEPT !.pc = "attach"])
  BY DEF Typed, CallsOK, CallOK, CallRow, Pcs, CreateRow, At
<1> QED BY <1>1, Going, SameBranding DEF CreateRow, Typed

LEMMA AttachingImage ==
    ASSUME Typed, NEW c \in Calls, Attaching(c)
    PROVE  /\ BrandingOK' /\ At(c, "attach") /\ O(c) \in owners
           /\ OneImageSet(O(c), K(c), call[c].file)
<1>1. O(c) \in Owners /\ K(c) \in Kinds /\ call[c].file \in Files
  BY DEF Typed, CallsOK, CallOK, Attaching, At, O, K
<1> QED BY <1>1, SettingImage DEF Attaching, Attached, Typed

LEMMA SettingReference ==
    ASSUME Typed, NEW c \in Calls, SetImage(c)
    PROVE  /\ BrandingOK' /\ At(c, "attach") /\ O(c) \in owners
           /\ UNCHANGED << owners, rows, bytes, owner, failed, disturbed >>
           /\ OneImageSet(O(c), K(c), call[c].file)
           /\ Dropped(c, call[c].doomed)
<1>1. BrandingOK' /\ At(c, "attach") /\ O(c) \in owners /\ OneImageSet(O(c), K(c), call[c].file)
  BY AttachingImage DEF SetImage
<1>2. ~ At(c, "idle")
  BY <1>1 DEF At
<1> QED BY <1>1, <1>2, Dropping, OwnerTyped DEF SetImage, Typed

LEMMA UploadFailing ==
    ASSUME Typed, NEW c \in Calls, UploadFails(c)
    PROVE  /\ BrandingOK' /\ New(c)
           /\ UNCHANGED << owners, rows, bytes, owner >>
           /\ failed' = failed \cup {call[c].file}
           /\ Becomes(c, "undo", O(c), K(c), call[c].file, call[c].doomed)
           /\ \/ SameImages /\ disturbed' = disturbed
              \/ /\ At(c, "attach") /\ O(c) \in owners
                 /\ OneImageSet(O(c), K(c), call[c].file)
                 /\ disturbed' = disturbed \cup {O(c)}
<1>1. New(c)
  BY DEF UploadFails, Attaching, At, New
<1>2. CallOK([call[c] EXCEPT !.pc = "undo"])
  BY <1>1 DEF Typed, CallsOK, CallOK, CallRow, Pcs, New
<1>3. Becomes(c, "undo", O(c), K(c), call[c].file, call[c].doomed)
  BY <1>2, Going DEF UploadFails, Typed
<1> QED BY <1>1, <1>3, AttachingImage, SameBranding DEF UploadFails, Typed

LEMMA Undoing ==
    ASSUME Typed, NEW c \in Calls, Undo(c)
    PROVE  /\ BrandingOK' /\ SameImages /\ At(c, "undo")
           /\ UNCHANGED << owners, rows, owner, failed >>
           /\ Becomes(c, "idle", NoOwner, NoKind, NoFile, {})
           /\ \/ bytes' = bytes \ {call[c].file} /\ disturbed' = disturbed
              \/ bytes' = bytes /\ disturbed' = disturbed \cup {O(c)}
BY Finishing, SameBranding DEF Undo, Typed

LEMMA Looking ==
    ASSUME Typed, NEW c \in Calls, LookBeforeClearing(c)
    PROVE  /\ BrandingOK' /\ SameImages /\ Kept /\ disturbed' = disturbed /\ At(c, "clear")
           /\ \/ Becomes(c, "null", O(c), K(c), NoFile, call[c].doomed)
              \/ /\ Becomes(c, "remove", O(c), K(c), NoFile, call[c].doomed)
                 /\ \A k \in Kinds : k # K(c) => Image(O(c), k) = NoFile
              \/ /\ Dropped(c, call[c].doomed)
                 /\ \A k \in Kinds : Image(O(c), k) = NoFile
<1>1. ~ At(c, "idle") /\ call[c].file = NoFile
  BY DEF Typed, CallsOK, CallOK, LookBeforeClearing, At
<1>2. CASE branding[O(c)].there /\ Persists(O(c), branding[O(c)].colours, K(c))
  <2>1. Goto(c, "null")
    BY <1>2 DEF LookBeforeClearing
  <2>2. CallOK([call[c] EXCEPT !.pc = "null"])
    BY DEF Typed, CallsOK, CallOK, CallRow, Pcs, LookBeforeClearing, At
  <2>3. Becomes(c, "null", O(c), K(c), NoFile, call[c].doomed)
    BY <1>1, <2>1, <2>2, Going DEF Typed
  <2> QED BY <2>3, SameBranding DEF LookBeforeClearing, Typed, Kept
<1>3. CASE branding[O(c)].there /\ ~ Persists(O(c), branding[O(c)].colours, K(c))
  <2>1. Goto(c, "remove")
    BY <1>3 DEF LookBeforeClearing
  <2>2. CallOK([call[c] EXCEPT !.pc = "remove"])
    BY DEF Typed, CallsOK, CallOK, CallRow, Pcs, LookBeforeClearing, At
  <2>3. Becomes(c, "remove", O(c), K(c), NoFile, call[c].doomed)
    BY <1>1, <2>1, <2>2, Going DEF Typed
  <2>4. \A k \in Kinds : k # K(c) => Image(O(c), k) = NoFile
    BY <1>3 DEF Persists, Images
  <2> QED BY <2>3, <2>4, SameBranding DEF LookBeforeClearing, Typed, Kept
<1>4. CASE ~ branding[O(c)].there
  <2>1. Dropped(c, call[c].doomed)
    BY <1>1, <1>4, Dropping, OwnerTyped DEF LookBeforeClearing, Typed
  <2>2. \A k \in Kinds : Image(O(c), k) = NoFile
    BY <1>1, <1>4, ImageTyped, OwnerTyped DEF Typed
  <2> QED BY <2>1, <2>2, SameBranding DEF LookBeforeClearing, Typed, Kept
<1> QED BY <1>2, <1>3, <1>4

LEMMA SettingNull ==
    ASSUME Typed, NEW c \in Calls, SetNull(c)
    PROVE  /\ BrandingOK' /\ Kept /\ disturbed' = disturbed /\ At(c, "null")
           /\ OneImageSet(O(c), K(c), NoFile)
           /\ Dropped(c, call[c].doomed)
<1>1. ~ At(c, "idle") /\ O(c) \in Owners /\ K(c) \in Kinds
  BY DEF Typed, CallsOK, CallOK, SetNull, At, O, K
<1>2. Dropped(c, call[c].doomed)
  BY <1>1, Dropping, OwnerTyped DEF SetNull, Typed
<1> QED BY <1>1, <1>2, SettingImage DEF SetNull, Typed, Kept

LEMMA ClearingRow ==
    ASSUME Typed, NEW c \in Calls, RemoveRow(c) \/ Reset(c)
    PROVE  /\ BrandingOK' /\ Kept /\ disturbed' = disturbed
           /\ At(c, "remove") \/ At(c, "reset")
           /\ ImagesGone(O(c))
           /\ Dropped(c, call[c].doomed)
<1>1. ~ At(c, "idle") /\ O(c) \in Owners
  BY DEF Typed, CallsOK, CallOK, RemoveRow, Reset, At, O
<1>2. Dropped(c, call[c].doomed)
  BY <1>1, Dropping, OwnerTyped DEF RemoveRow, Reset, Typed
<1>3. branding' = [branding EXCEPT ![O(c)] = NoRow]
  BY DEF RemoveRow, Reset
<1>4. BrandingOK' /\ ImagesGone(O(c))
  BY <1>1, <1>3, RemovingRow DEF Typed
<1> QED BY <1>2, <1>4 DEF RemoveRow, Reset, Kept

LEMMA Updating ==
    ASSUME Typed, NEW c \in Calls, Update(c)
    PROVE  /\ BrandingOK' /\ SameImages /\ Kept /\ disturbed' = disturbed
           /\ call[c].pc \in {"paint", "unpaint"}
           /\ Becomes(c, "idle", NoOwner, NoKind, NoFile, {})
<1>1. O(c) \in Owners /\ At(c, "paint") \in BOOLEAN
  BY DEF Typed, CallsOK, CallOK, Update, At, O
<1>2. BrandingOK' /\ SameImages
  BY <1>1, Painting DEF Update, Typed
<1> QED BY <1>2, Finishing DEF Update, Typed, Kept

LEMMA RemovingTenant ==
    ASSUME Typed, NEW c \in Calls, RemoveTenant(c)
    PROVE  /\ BrandingOK' /\ At(c, "tenant") /\ O(c) \in owners
           /\ UNCHANGED << bytes, owner, failed, disturbed >>
           /\ owners' = owners \ {O(c)} /\ rows' = {f \in rows : owner[f] # O(c)}
           /\ ImagesGone(O(c))
           /\ Dropped(c, call[c].doomed)
<1>1. ~ At(c, "idle") /\ O(c) \in Owners
  BY DEF Typed, CallsOK, CallOK, RemoveTenant, At, O
<1>2. Dropped(c, call[c].doomed)
  BY <1>1, Dropping, OwnerTyped DEF RemoveTenant, Typed
<1> QED BY <1>1, <1>2, RemovingRow DEF RemoveTenant, Typed

LEMMA DroppingFile ==
    ASSUME Typed, NEW c \in Calls, Drop(c)
    PROVE  /\ BrandingOK' /\ At(c, "drop") /\ UNCHANGED << owners, owner, failed >>
           /\ \E f \in call[c].doomed :
                 /\ \/ rows' = rows \ {f} /\ ImageDropped(f)
                    \/ rows' = rows /\ SameImages
                 /\ bytes' \in {bytes, bytes \ {f}}
                 /\ disturbed' = IF f \in rows' \cup bytes' THEN disturbed \cup {O(c)}
                                                            ELSE disturbed
                 /\ Dropped(c, call[c].doomed \ {f})
<1>1. PICK f \in call[c].doomed :
          /\ At(c, "drop") /\ UNCHANGED << owners, owner, failed >>
          /\ \/ rows' = rows \ {f} /\ branding' = Without(f)
             \/ UNCHANGED << rows, branding >>
          /\ bytes' \in {bytes, bytes \ {f}}
          /\ disturbed' = IF f \in rows' \cup bytes' THEN disturbed \cup {O(c)} ELSE disturbed
          /\ Drops(c, call[c].doomed \ {f})
  BY DEF Drop
<1>2. ~ At(c, "idle")
  BY <1>1 DEF At
<1>3. f \in Files /\ call[c].doomed \ {f} \in SUBSET Files
  BY <1>2, OwnerTyped DEF Typed
<1>4. Dropped(c, call[c].doomed \ {f})
  BY <1>1, <1>2, <1>3, Dropping DEF Typed
<1>5. /\ BrandingOK'
      /\ \/ rows' = rows \ {f} /\ ImageDropped(f)
         \/ rows' = rows /\ SameImages
  <2>1. CASE rows' = rows \ {f} /\ branding' = Without(f)
    <3>1. BrandingOK' /\ ImageDropped(f)
      BY <1>3, <2>1, DroppingImage DEF Typed
    <3> QED BY <2>1, <3>1
  <2>2. CASE UNCHANGED << rows, branding >>
    BY <2>2, SameBranding DEF Typed
  <2> QED BY <1>1, <2>1, <2>2
<1> QED BY <1>1, <1>4, <1>5

LEMMA Abandoning ==
    ASSUME Typed, NEW c \in Calls, Abandon(c)
    PROVE  /\ BrandingOK' /\ SameImages /\ Kept /\ ~ At(c, "idle")
           /\ disturbed' = disturbed \cup {O(c)}
           /\ Becomes(c, "idle", NoOwner, NoKind, NoFile, {})
BY Finishing, SameBranding DEF Abandon, Typed, Kept

-----------------------------------------------------------------------------
(* Types *)

Started(c) ==
    \E o \in Owners :
       /\ BrandingOK' /\ SameImages /\ Kept
       /\ \/ \E k \in Kinds : \/ Begun(c, "previous", o, k, {})
                              \/ Begun(c, "put", o, k, Images(o, {k}))
                              \/ Begun(c, "clear", o, k, Images(o, {k}))
          \/ Begun(c, "reset", o, NoKind, Images(o, Kinds))
          \/ Begun(c, "tenant", o, NoKind, {f \in rows : owner[f] = o})
          \/ Begun(c, "paint", o, NoKind, {})
          \/ Begun(c, "unpaint", o, NoKind, {})
          \/ Begun(c, "remove", o, NoKind, {}) /\ \A k \in Kinds : Image(o, k) = NoFile

LEMMA Starting ==
    ASSUME Typed, NEW c \in Calls, NEW o \in Owners, Start(c, o)
    PROVE  Started(c)
<1>1. CASE \E k \in Kinds : StartUpload(c, o, k)
  BY <1>1, UploadStarts DEF Started
<1>2. CASE \E k \in Kinds : StartDelete(c, o, k)
  BY <1>2, DeleteStarts DEF Started
<1>3. CASE \E colours \in BOOLEAN : StartUpdate(c, o, colours)
  BY <1>3, UpdateStarts DEF Started
<1>4. CASE StartReset(c, o)
  BY <1>4, ResetStarts DEF Started
<1>5. CASE StartRemoval(c, o)
  BY <1>5, RemovalStarts DEF Started
<1> QED BY <1>1, <1>2, <1>3, <1>4, <1>5 DEF Start

LEMMA TypedInit == Init => Typed
<1> SUFFICES ASSUME Init PROVE Typed
  OBVIOUS
<1>1. CallsOK
  <2>1. Idle \in CallRow
    BY IdleOK DEF CallOK
  <2> QED BY <2>1, IdleOK DEF Init, CallsOK
<1>2. BrandingOK
  BY NoRowOK DEF Init, BrandingOK
<1>3. StateTyped
  BY BrandingAssumption DEF Init, StateTyped
<1> QED BY <1>1, <1>2, <1>3 DEF Typed

LEMMA TypedStep == Typed /\ [Next]_vars => Typed'
<1> SUFFICES ASSUME Typed, [Next]_vars PROVE Typed'
  OBVIOUS
<1>1. CASE UNCHANGED vars
  BY <1>1 DEF vars, Typed, CallsOK, BrandingOK, StateTyped
<1>2. ASSUME NEW c \in Calls, NEW o \in Owners, Start(c, o) PROVE Typed'
  <2>1. Started(c)
    BY <1>2, Starting
  <2>2. StateTyped'
    BY <2>1 DEF Started, Begun, Kept, Typed, StateTyped
  <2> QED BY <2>1, <2>2 DEF Started, Begun, Becomes, Typed
<1>3. ASSUME NEW c \in Calls, UploadStep(c) PROVE Typed'
  <2>0. ~ At(c, "idle")
    BY <1>3 DEF UploadStep, ReadPrevious, Put, CreateRow, SetImage, UploadFails, Undo, Attaching, At
  <2>1. O(c) \in Owners /\ call[c].file \in Files \cup {NoFile}
    BY <2>0, OwnerTyped DEF Typed
  <2>2. CASE ReadPrevious(c)
    BY <2>2, Reading DEF Becomes, Kept, Typed, StateTyped
  <2>3. CASE Put(c)
    BY <2>1, <2>3, Putting DEF Becomes, Typed, StateTyped
  <2>4. CASE CreateRow(c)
    <3>1. call[c].file \in Files
      BY <2>4 DEF Typed, CallsOK, CallOK, CreateRow, At
    <3> QED BY <2>4, <3>1, CreatingRow DEF Becomes, Typed, StateTyped
  <2>5. CASE SetImage(c)
    BY <2>5, SettingReference DEF Dropped, Becomes, Typed, StateTyped
  <2>6. CASE UploadFails(c)
    <3>1. call[c].file \in Files
      BY <2>6, UploadFailing DEF Typed, CallsOK, CallOK, New
    <3> QED BY <2>1, <2>6, <3>1, UploadFailing DEF Becomes, Typed, StateTyped
  <2>7. CASE Undo(c)
    BY <2>1, <2>7, Undoing DEF Becomes, Typed, StateTyped
  <2> QED BY <1>3, <2>2, <2>3, <2>4, <2>5, <2>6, <2>7 DEF UploadStep
<1>4. ASSUME NEW c \in Calls, RemovalStep(c) PROVE Typed'
  <2>1. CASE LookBeforeClearing(c)
    BY <2>1, Looking DEF Dropped, Becomes, Kept, Typed, StateTyped
  <2>2. CASE SetNull(c)
    BY <2>2, SettingNull DEF Dropped, Becomes, Kept, Typed, StateTyped
  <2>3. CASE RemoveRow(c) \/ Reset(c)
    BY <2>3, ClearingRow DEF Dropped, Becomes, Kept, Typed, StateTyped
  <2>4. CASE Update(c)
    BY <2>4, Updating DEF Becomes, Kept, Typed, StateTyped
  <2>5. CASE RemoveTenant(c)
    <3>1. O(c) # Platform
      BY <2>5 DEF RemoveTenant, At, O, Typed, CallsOK, CallOK
    <3> QED BY <2>5, <3>1, RemovingTenant DEF Dropped, Becomes, Typed, StateTyped
  <2>6. CASE Drop(c)
    <3>1. O(c) \in Owners
      BY <2>6, OwnerTyped DEF Drop, At, Typed
    <3> QED BY <2>6, <3>1, DroppingFile DEF Dropped, Becomes, Typed, StateTyped
  <2> QED BY <1>4, <2>1, <2>2, <2>3, <2>4, <2>5, <2>6 DEF RemovalStep
<1>5. ASSUME NEW c \in Calls, Abandon(c) PROVE Typed'
  <2>1. O(c) \in Owners
    BY <1>5, OwnerTyped DEF Abandon, Typed
  <2> QED BY <1>5, <2>1, Abandoning DEF Becomes, Kept, Typed, StateTyped
<1> QED BY <1>1, <1>2, <1>3, <1>4, <1>5 DEF Next

\* The state has its types.
THEOREM TypeCorrect == Spec => []TypeOK
<1>1. Typed => TypeOK
  BY DEF Typed, CallsOK, CallOK, BrandingOK, StateTyped, TypeOK
<1> QED BY <1>1, TypedInit, TypedStep, PTL DEF Spec

-----------------------------------------------------------------------------
(* Images are stored *)

ImagesShrink ==
    \A p \in Owners, l \in Kinds : branding'[p].image[l] \in {Image(p, l), NoFile}

\* A step that stores nothing, and after which c holds no file.
LEMMA NothingStored ==
    ASSUME Typed, StoredInvariant, Typed', NEW c \in Calls, NEW pc, NEW o, NEW k, NEW S,
           Becomes(c, pc, o, k, NoFile, S), pc \notin {"row", "attach", "undo"},
           ImagesShrink, UNCHANGED << owner, failed >>, owners' \subseteq owners,
           \A p \in Owners, l \in Kinds : branding'[p].image[l] # NoFile =>
               branding'[p].image[l] \in rows' /\ branding'[p].image[l] \in bytes' \cup failed,
           \A d \in Calls : d # c /\ New(d) /\ O(d) \in owners' =>
               /\ call[d].file \in bytes'
               /\ call[d].pc = "attach" => call[d].file \in rows',
           \A f \in S : owner[f] = o,
           pc \in {"put", "clear", "null"} => \A l \in Kinds : Image(o, l) \in S => l = k,
           pc = "drop" => \A p \in Owners, l \in Kinds : branding'[p].image[l] \notin S,
           \/ pc = "tenant"
           \/ \A d \in Calls : d # c /\ New(d) /\ call[d].file \in S => O(d) \notin owners'
    PROVE  StoredInvariant'
<1>1. /\ \A d \in Calls : d # c => call'[d] = call[d]
      /\ call'[c].pc = pc /\ call'[c].owner = o /\ call'[c].kind = k
      /\ call'[c].file = NoFile /\ call'[c].doomed = S
  BY DEF Becomes
<1>2. \A p \in Owners, l \in Kinds :
          Image(p, l)' = branding'[p].image[l] /\ Image(p, l)' \in {Image(p, l), NoFile}
  BY DEF ImagesShrink, Image
<1>3. ~ New(c)'
  BY <1>1 DEF New
<1>4. \A d \in Calls : d # c => O(d)' = O(d) /\ K(d)' = K(d) /\ (New(d)' <=> New(d))
  BY <1>1 DEF O, K, New
<1>5. \A d \in Calls : \A f \in call[d].doomed : f # NoFile
  <2>1. \A d \in Calls : call[d].doomed \subseteq Files
    BY DEF Typed, CallsOK, CallRow
  <2> QED BY <2>1, BrandingAssumption
<1>6. NoFile \notin S
  <2>1. S \subseteq Files
    BY <1>1 DEF Typed, CallsOK, CallRow
  <2> QED BY <2>1, BrandingAssumption
<1>7. ImagesOwned'
  BY <1>2 DEF StoredInvariant, ImagesOwned
<1>8. HeldOwned'
  BY <1>1 DEF StoredInvariant, HeldOwned, O
<1>9. DoomedOwned'
  BY <1>1 DEF StoredInvariant, DoomedOwned, O
<1>10. OneImage'
  BY <1>2 DEF StoredInvariant, OneImage
<1>11. OneHolder'
  BY <1>1 DEF StoredInvariant, OneHolder
<1>12. NewIsNoImage'
  <2>1. \A d \in Calls : New(d) => call[d].file # NoFile
    BY BrandingAssumption DEF New, Typed, CallsOK, CallOK
  <2> QED BY <1>1, <1>2, <1>3, <1>4, <2>1 DEF StoredInvariant, NewIsNoImage
<1>13. NewIsNotDoomed'
  BY <1>1, <1>3, <1>4 DEF StoredInvariant, NewIsNotDoomed
<1>14. NewIsStored'
  BY <1>1, <1>3, <1>4 DEF StoredInvariant, NewIsStored
<1>15. UndoneFailed'
  BY <1>1 DEF StoredInvariant, UndoneFailed
<1>16. DoomedImage'
  <2>1. ASSUME NEW d \in Calls, call'[d].pc \in {"put", "row", "attach", "clear", "null"},
               NEW l \in Kinds, Image(O(d), l)' \in call'[d].doomed
        PROVE  l = K(d)'
    <3>1. O(d)' \in Owners
      BY <2>1 DEF Typed, CallsOK, CallOK, O
    <3>2. CASE d = c
      <4>1. Image(o, l)' \in S /\ o \in Owners /\ K(c)' = k
        BY <1>1, <2>1, <3>1, <3>2 DEF O, K
      <4>2. Image(o, l) \in S
        BY <1>2, <1>6, <4>1
      <4> QED BY <1>1, <2>1, <3>2, <4>1, <4>2
    <3>3. CASE d # c
      <4>1. Image(O(d), l)' \in call[d].doomed /\ O(d) \in Owners
        BY <1>1, <1>4, <2>1, <3>1, <3>3
      <4>2. Image(O(d), l) \in call[d].doomed
        <5>1. Image(O(d), l)' = branding'[O(d)'].image[l]
          BY DEF Image
        <5>2. Image(O(d), l)' \in {Image(O(d), l), NoFile}
          BY <1>4, <3>3, <4>1, <5>1 DEF ImagesShrink
        <5> QED BY <1>5, <4>1, <5>2
      <4> QED BY <1>1, <1>4, <2>1, <3>3, <4>2 DEF StoredInvariant, DoomedImage
    <3> QED BY <3>2, <3>3
  <2> QED BY <2>1 DEF DoomedImage
<1>17. DroppedIsNoImage'
  BY <1>1, <1>2, <1>5 DEF StoredInvariant, DroppedIsNoImage
<1>18. ReferencedIsStored'
  BY <1>2 DEF ReferencedIsStored
<1> QED BY <1>7, <1>8, <1>9, <1>10, <1>11, <1>12, <1>13, <1>14, <1>15, <1>16, <1>17, <1>18
        DEF StoredInvariant

\* The same, when c drops files next.
LEMMA DroppingStored ==
    ASSUME Typed, StoredInvariant, Typed', NEW c \in Calls, NEW S, Dropped(c, S),
           ImagesShrink, UNCHANGED << owner, failed >>, owners' \subseteq owners,
           \A p \in Owners, l \in Kinds : branding'[p].image[l] # NoFile =>
               branding'[p].image[l] \in rows' /\ branding'[p].image[l] \in bytes' \cup failed,
           \A d \in Calls : d # c /\ New(d) /\ O(d) \in owners' =>
               /\ call[d].file \in bytes'
               /\ call[d].pc = "attach" => call[d].file \in rows',
           \A f \in S : owner[f] = O(c),
           \A p \in Owners, l \in Kinds : branding'[p].image[l] \notin S,
           \A d \in Calls : d # c /\ New(d) /\ call[d].file \in S => O(d) \notin owners'
    PROVE  StoredInvariant'
<1>1. CASE S = {}
  <2>1. Becomes(c, "idle", NoOwner, NoKind, NoFile, S)
    BY <1>1 DEF Dropped
  <2> QED BY <1>1, <2>1, NothingStored
<1>2. CASE S # {}
  <2>1. Becomes(c, "drop", O(c), NoKind, NoFile, S)
    BY <1>2 DEF Dropped
  <2> QED BY <2>1, NothingStored
<1> QED BY <1>1, <1>2

\* What stays stored when neither rows nor bytes change.
LEMMA KeptStored ==
    ASSUME StoredInvariant, ImagesShrink, Kept
    PROVE  /\ UNCHANGED << owner, failed >> /\ owners' \subseteq owners
           /\ \A p \in Owners, l \in Kinds : branding'[p].image[l] # NoFile =>
                  branding'[p].image[l] \in rows' /\ branding'[p].image[l] \in bytes' \cup failed
           /\ \A d \in Calls : New(d) /\ O(d) \in owners' =>
                  /\ call[d].file \in bytes'
                  /\ call[d].pc = "attach" => call[d].file \in rows'
BY DEF StoredInvariant, ImagesShrink, Kept, ReferencedIsStored, NewIsStored

LEMMA Shrinking ==
    /\ SameImages => ImagesShrink
    /\ \A o \in Owners, k \in Kinds : OneImageSet(o, k, NoFile) => ImagesShrink
    /\ \A o \in Owners : ImagesGone(o) => ImagesShrink
    /\ \A f : ImageDropped(f) => ImagesShrink
BY DEF SameImages, OneImageSet, ImagesGone, ImageDropped, ImagesShrink

\* The files of images are their owner's, and no upload has them still.
LEMMA ImagesAreOwn ==
    ASSUME Typed, StoredInvariant, NEW o \in Owners, NEW T \in SUBSET Kinds
    PROVE  /\ \A f \in Images(o, T) : owner[f] = o
           /\ \A k \in T, l \in Kinds : Image(o, l) \in Images(o, {k}) => l = k
           /\ \A d \in Calls : New(d) => call[d].file \notin Images(o, T)
BY DEF StoredInvariant, ImagesOwned, OneImage, NewIsNoImage, Images

LEMMA StartKeepsStored ==
    ASSUME Typed, StoredInvariant, Typed', NEW c \in Calls, Started(c)
    PROVE  StoredInvariant'
<1>1. PICK o \in Owners :
         /\ SameImages /\ Kept
         /\ \/ \E k \in Kinds : \/ Begun(c, "previous", o, k, {})
                                \/ Begun(c, "put", o, k, Images(o, {k}))
                                \/ Begun(c, "clear", o, k, Images(o, {k}))
            \/ Begun(c, "reset", o, NoKind, Images(o, Kinds))
            \/ Begun(c, "tenant", o, NoKind, {f \in rows : owner[f] = o})
            \/ Begun(c, "paint", o, NoKind, {})
            \/ Begun(c, "unpaint", o, NoKind, {})
            \/ Begun(c, "remove", o, NoKind, {})
  BY DEF Started
<1>2. ImagesShrink
  BY <1>1, Shrinking
<1>3. /\ UNCHANGED << owner, failed >> /\ owners' \subseteq owners
      /\ \A p \in Owners, l \in Kinds : branding'[p].image[l] # NoFile =>
             branding'[p].image[l] \in rows' /\ branding'[p].image[l] \in bytes' \cup failed
      /\ \A d \in Calls : New(d) /\ O(d) \in owners' =>
             /\ call[d].file \in bytes'
             /\ call[d].pc = "attach" => call[d].file \in rows'
  BY <1>1, <1>2, KeptStored
<1>4. ASSUME NEW pc \in {"previous", "put", "clear", "reset", "tenant", "paint", "unpaint",
                      "remove"},
             NEW k, NEW S, Becomes(c, pc, o, k, NoFile, S),
             \A f \in S : owner[f] = o,
             pc \in {"put", "clear"} => \A l \in Kinds : Image(o, l) \in S => l = k,
             pc = "tenant" \/ \A d \in Calls : New(d) => call[d].file \notin S
      PROVE  StoredInvariant'
  BY <1>2, <1>3, <1>4, NothingStored
<1>5. CASE \E k \in Kinds : \/ Begun(c, "put", o, k, Images(o, {k}))
                           \/ Begun(c, "clear", o, k, Images(o, {k}))
  <2>1. PICK k \in Kinds : \/ Becomes(c, "put", o, k, NoFile, Images(o, {k}))
                           \/ Becomes(c, "clear", o, k, NoFile, Images(o, {k}))
    BY <1>5 DEF Begun
  <2>2. /\ \A f \in Images(o, {k}) : owner[f] = o
        /\ \A l \in Kinds : Image(o, l) \in Images(o, {k}) => l = k
        /\ \A d \in Calls : New(d) => call[d].file \notin Images(o, {k})
    BY ImagesAreOwn
  <2> QED BY <1>4, <2>1, <2>2
<1>6. CASE Begun(c, "reset", o, NoKind, Images(o, Kinds))
  <2>1. /\ \A f \in Images(o, Kinds) : owner[f] = o
        /\ \A d \in Calls : New(d) => call[d].file \notin Images(o, Kinds)
    BY ImagesAreOwn
  <2> QED BY <1>4, <1>6, <2>1 DEF Begun
<1>7. CASE Begun(c, "tenant", o, NoKind, {f \in rows : owner[f] = o})
  <2> DEFINE S == {f \in rows : owner[f] = o}
  <2>1. Becomes(c, "tenant", o, NoKind, NoFile, S) /\ \A f \in S : owner[f] = o
    BY <1>7 DEF Begun
  <2> HIDE DEF S
  <2> QED BY <1>4, <2>1
<1>8. CASE \/ \E k \in Kinds : Begun(c, "previous", o, k, {})
           \/ Begun(c, "paint", o, NoKind, {})
           \/ Begun(c, "unpaint", o, NoKind, {})
           \/ Begun(c, "remove", o, NoKind, {})
  BY <1>4, <1>8 DEF Begun
<1> QED BY <1>1, <1>5, <1>6, <1>7, <1>8

\* The doomed files of a request are no longer an upload's, unless a tenant is deleted.
LEMMA DoomedAreOld ==
    ASSUME StoredInvariant, NEW c \in Calls, ~ At(c, "tenant")
    PROVE  /\ \A f \in call[c].doomed : owner[f] = O(c)
           /\ \A d \in Calls : New(d) /\ call[d].file \in call[c].doomed => O(d) \notin owners
BY DEF StoredInvariant, DoomedOwned, NewIsNotDoomed, At

\* What is left of the images of a removed row was not doomed.
LEMMA GoneIsNotDoomed ==
    ASSUME Typed, StoredInvariant, NEW c \in Calls, ImagesShrink,
           \A k \in Kinds : branding'[O(c)].image[k] = NoFile
    PROVE  \A p \in Owners, l \in Kinds : branding'[p].image[l] \notin call[c].doomed
<1>1. call[c].doomed \subseteq Files
  BY DEF Typed, CallsOK, CallRow
<1> SUFFICES ASSUME NEW p \in Owners, NEW l \in Kinds, branding'[p].image[l] \in call[c].doomed
             PROVE  FALSE
  OBVIOUS
<1>2. branding'[p].image[l] # NoFile
  BY <1>1, BrandingAssumption
<1>3. branding'[p].image[l] = Image(p, l)
  BY <1>2 DEF ImagesShrink
<1>4. p = O(c)
  BY <1>2, <1>3 DEF StoredInvariant, ImagesOwned, DoomedOwned
<1> QED BY <1>2, <1>4

LEMMA RemovalKeepsStored ==
    ASSUME Typed, StoredInvariant, Typed', NEW c \in Calls, RemovalStep(c) \/ Abandon(c)
    PROVE  StoredInvariant'
<1>1. CASE LookBeforeClearing(c)
  <2>1. /\ SameImages /\ Kept /\ At(c, "clear")
        /\ \/ Becomes(c, "null", O(c), K(c), NoFile, call[c].doomed)
           \/ Becomes(c, "remove", O(c), K(c), NoFile, call[c].doomed)
           \/ /\ Dropped(c, call[c].doomed)
              /\ \A k \in Kinds : Image(O(c), k) = NoFile
    BY <1>1, Looking
  <2>2. ImagesShrink /\ ~ At(c, "tenant") /\ ~ At(c, "idle")
    BY <2>1, Shrinking DEF At
  <2>3. \A l \in Kinds : Image(O(c), l) \in call[c].doomed => l = K(c)
    BY <2>1 DEF StoredInvariant, DoomedImage, At
  <2>4. O(c) \in Owners
    BY <2>2, OwnerTyped DEF Typed
  <2>5. CASE Becomes(c, "null", O(c), K(c), NoFile, call[c].doomed)
    BY <2>1, <2>2, <2>3, <2>5, NothingStored, KeptStored, DoomedAreOld
  <2>6. CASE Becomes(c, "remove", O(c), K(c), NoFile, call[c].doomed)
    BY <2>1, <2>2, <2>6, NothingStored, KeptStored, DoomedAreOld
  <2>7. CASE Dropped(c, call[c].doomed) /\ \A k \in Kinds : Image(O(c), k) = NoFile
    <3>1. \A k \in Kinds : branding'[O(c)].image[k] = NoFile
      BY <2>1, <2>4, <2>7 DEF SameImages
    <3>2. \A p \in Owners, l \in Kinds : branding'[p].image[l] \notin call[c].doomed
      BY <2>2, <3>1, GoneIsNotDoomed
    <3> QED BY <2>1, <2>2, <2>7, <3>2, DroppingStored, KeptStored, DoomedAreOld
  <2> QED BY <2>1, <2>5, <2>6, <2>7
<1>2. CASE SetNull(c)
  <2>1. /\ Kept /\ At(c, "null") /\ OneImageSet(O(c), K(c), NoFile)
        /\ Dropped(c, call[c].doomed)
    BY <1>2, SettingNull
  <2>2. ~ At(c, "tenant") /\ O(c) \in Owners /\ K(c) \in Kinds /\ call[c].doomed \subseteq Files
    BY <2>1 DEF At, Typed, CallsOK, CallOK, CallRow, O, K
  <2>3. ImagesShrink
    BY <2>1, <2>2, Shrinking
  <2>4. \A p \in Owners, l \in Kinds : branding'[p].image[l] \notin call[c].doomed
    <3> SUFFICES ASSUME NEW p \in Owners, NEW l \in Kinds,
                        branding'[p].image[l] \in call[c].doomed
                 PROVE  FALSE
      OBVIOUS
    <3>1. branding'[p].image[l] # NoFile
      BY <2>2, BrandingAssumption
    <3>2. branding'[p].image[l] = Image(p, l) /\ ~ (p = O(c) /\ l = K(c))
      BY <2>1, <3>1 DEF OneImageSet
    <3>3. p = O(c)
      BY <3>1, <3>2 DEF StoredInvariant, ImagesOwned, DoomedOwned
    <3> QED BY <2>1, <3>2, <3>3 DEF StoredInvariant, DoomedImage, At
  <2> QED BY <2>1, <2>2, <2>3, <2>4, DroppingStored, KeptStored, DoomedAreOld
<1>3. CASE RemoveRow(c) \/ Reset(c)
  <2>1. /\ Kept /\ (At(c, "remove") \/ At(c, "reset")) /\ ImagesGone(O(c))
        /\ Dropped(c, call[c].doomed)
    BY <1>3, ClearingRow
  <2>2. ~ At(c, "tenant") /\ O(c) \in Owners
    BY <2>1, OwnerTyped DEF At, Typed
  <2>3. ImagesShrink /\ \A k \in Kinds : branding'[O(c)].image[k] = NoFile
    BY <2>1, <2>2, Shrinking DEF ImagesGone
  <2>4. \A p \in Owners, l \in Kinds : branding'[p].image[l] \notin call[c].doomed
    BY <2>3, GoneIsNotDoomed
  <2> QED BY <2>1, <2>2, <2>3, <2>4, DroppingStored, KeptStored, DoomedAreOld
<1>4. CASE Update(c) \/ Abandon(c)
  <2>1. SameImages /\ Kept /\ Becomes(c, "idle", NoOwner, NoKind, NoFile, {})
    BY <1>4, Updating, Abandoning
  <2>2. ImagesShrink
    BY <2>1, Shrinking
  <2> QED BY <2>1, <2>2, NothingStored, KeptStored
<1>5. CASE RemoveTenant(c)
  <2>1. /\ UNCHANGED << bytes, owner, failed >>
        /\ owners' = owners \ {O(c)} /\ rows' = {f \in rows : owner[f] # O(c)}
        /\ ImagesGone(O(c)) /\ Dropped(c, call[c].doomed) /\ O(c) \in Owners
    BY <1>5, RemovingTenant DEF Typed, StateTyped
  <2>2. ImagesShrink /\ \A k \in Kinds : branding'[O(c)].image[k] = NoFile
    BY <2>1, Shrinking DEF ImagesGone
  <2>3. \A p \in Owners, l \in Kinds : branding'[p].image[l] \notin call[c].doomed
    BY <2>2, GoneIsNotDoomed
  <2>4. \A p \in Owners, l \in Kinds : branding'[p].image[l] # NoFile =>
            branding'[p].image[l] \in rows' /\ branding'[p].image[l] \in bytes' \cup failed
    BY <2>1, <2>2 DEF ImagesShrink, StoredInvariant, ImagesOwned, ReferencedIsStored
  <2>5. \A d \in Calls : New(d) => owner[call[d].file] = O(d)
    BY BrandingAssumption DEF New, Typed, CallsOK, CallOK, StoredInvariant, HeldOwned
  <2>6. \A d \in Calls : New(d) /\ O(d) \in owners' =>
            /\ call[d].file \in bytes'
            /\ call[d].pc = "attach" => call[d].file \in rows'
    BY <2>1, <2>5 DEF StoredInvariant, NewIsStored
  <2>7. \A f \in call[c].doomed : owner[f] = O(c)
    BY DEF StoredInvariant, DoomedOwned
  <2>8. \A d \in Calls : New(d) /\ call[d].file \in call[c].doomed => O(d) \notin owners'
    BY <2>1, <2>5, <2>7
  <2> QED BY <2>1, <2>2, <2>3, <2>4, <2>6, <2>7, <2>8, DroppingStored
<1>6. CASE Drop(c)
  <2>1. At(c, "drop") /\ UNCHANGED << owners, owner, failed >>
    BY <1>6, DroppingFile
  <2>2. PICK f \in call[c].doomed :
           /\ \/ rows' = rows \ {f} /\ ImageDropped(f)
              \/ rows' = rows /\ SameImages
           /\ bytes' \in {bytes, bytes \ {f}}
           /\ Dropped(c, call[c].doomed \ {f})
    BY <1>6, DroppingFile
  <2>3. ImagesShrink
    BY <2>2, Shrinking
  <2>4. \A p \in Owners, l \in Kinds : Image(p, l) \notin call[c].doomed
    BY <2>1 DEF StoredInvariant, DroppedIsNoImage, At
  <2>5. call[c].doomed \subseteq Files
    BY DEF Typed, CallsOK, CallRow
  <2>6. \A p \in Owners, l \in Kinds : branding'[p].image[l] \notin call[c].doomed
    BY <2>3, <2>4, <2>5, BrandingAssumption DEF ImagesShrink
  <2>7. \A p \in Owners, l \in Kinds : branding'[p].image[l] # NoFile =>
            branding'[p].image[l] \in rows' /\ branding'[p].image[l] \in bytes' \cup failed
    BY <2>2, <2>3, <2>6 DEF ImagesShrink, StoredInvariant, ReferencedIsStored
  <2>8. /\ \A g \in call[c].doomed : owner[g] = O(c)
        /\ \A d \in Calls : New(d) /\ call[d].file \in call[c].doomed => O(d) \notin owners
    BY <2>1, DoomedAreOld DEF At
  <2>9. \A d \in Calls : New(d) /\ O(d) \in owners' =>
            /\ call[d].file \in bytes'
            /\ call[d].pc = "attach" => call[d].file \in rows'
    BY <2>1, <2>2, <2>8 DEF StoredInvariant, NewIsStored
  <2> QED BY <2>1, <2>2, <2>3, <2>6, <2>7, <2>8, <2>9, DroppingStored
<1> QED BY <1>1, <1>2, <1>3, <1>4, <1>5, <1>6 DEF RemovalStep

\* An upload's step that goes on with its file, which is its own already.
LEMMA UploadGoesOn ==
    ASSUME Typed, StoredInvariant, Typed', NEW c \in Calls, NEW pc \in {"attach", "undo"},
           New(c), Becomes(c, pc, O(c), K(c), call[c].file, call[c].doomed)
    PROVE  /\ owner' = owner => HeldOwned' /\ DoomedOwned'
           /\ OneHolder'
           /\ UNCHANGED owners => NewIsNotDoomed'
           /\ SameImages => NewIsNoImage' /\ DoomedImage' /\ DroppedIsNoImage'
<1>1. /\ \A d \in Calls : call'[d].owner = call[d].owner /\ call'[d].kind = call[d].kind
                          /\ call'[d].file = call[d].file /\ call'[d].doomed = call[d].doomed
      /\ \A d \in Calls : d # c => call'[d].pc = call[d].pc
      /\ call'[c].pc = pc
  BY DEF Becomes, O, K
<1>2. \A d \in Calls : New(d)' => New(d)
  BY <1>1 DEF New
<1>3. owner' = owner => HeldOwned' /\ DoomedOwned'
  BY <1>1 DEF StoredInvariant, HeldOwned, DoomedOwned, O
<1>4. OneHolder'
  BY <1>1 DEF StoredInvariant, OneHolder
<1>5. UNCHANGED owners => NewIsNotDoomed'
  BY <1>1, <1>2 DEF StoredInvariant, NewIsNotDoomed, New, O
<1>6. SameImages => NewIsNoImage'
  BY <1>1, <1>2 DEF StoredInvariant, NewIsNoImage, SameImages, Image
<1>7. SameImages => DroppedIsNoImage'
  BY <1>1 DEF StoredInvariant, DroppedIsNoImage, SameImages, Image
<1>8. SameImages => DoomedImage'
  <2>1. \A d \in Calls : call[d].pc \in {"put", "row", "attach", "clear", "null"} =>
            O(d) \in Owners
    BY DEF Typed, CallsOK, CallOK, O
  <2>2. \A d \in Calls : call'[d].pc \in {"put", "row", "attach", "clear", "null"} =>
            call[d].pc \in {"put", "row", "attach", "clear", "null"}
    BY <1>1 DEF New
  <2> QED BY <1>1, <2>1, <2>2 DEF StoredInvariant, DoomedImage, SameImages, Image, O, K
<1> QED BY <1>3, <1>4, <1>5, <1>6, <1>7, <1>8

LEMMA SameStored ==
    ASSUME StoredInvariant, SameImages, owner' = owner
    PROVE  ImagesOwned' /\ OneImage'
BY DEF StoredInvariant, SameImages, ImagesOwned, OneImage, Image

LEMMA PutKeepsStored ==
    ASSUME Typed, StoredInvariant, Typed', NEW c \in Calls, Put(c)
    PROVE  StoredInvariant'
<1>1. SameImages /\ At(c, "put") /\ UNCHANGED << owners, rows, failed >>
  BY Putting
<1>2. PICK f \in Files : /\ owner[f] = NoOwner /\ owner' = [owner EXCEPT ![f] = O(c)]
                         /\ bytes' = bytes \cup {f}
                         /\ Becomes(c, "row", O(c), K(c), f, call[c].doomed)
  BY Putting
<1>3. /\ \A d \in Calls : d # c => call'[d] = call[d]
      /\ call'[c].pc = "row" /\ call'[c].owner = O(c) /\ call'[c].kind = K(c)
      /\ call'[c].file = f /\ call'[c].doomed = call[c].doomed
  BY <1>2 DEF Becomes
<1>4. owner'[f] = O(c) /\ \A g \in Files : g # f => owner'[g] = owner[g]
  BY <1>2 DEF Typed, StateTyped
<1>5. \A o \in Owners, k \in Kinds :
          /\ Image(o, k)' = Image(o, k) /\ Image(o, k) \in Files \cup {NoFile}
          /\ Image(o, k) # f
  BY <1>1, <1>2, ImageTyped, BrandingAssumption
  DEF SameImages, Image, StoredInvariant, ImagesOwned, Typed
<1>6. \A d \in Calls : /\ call[d].doomed \subseteq Files /\ call[d].file \in Files \cup {NoFile}
                       /\ call[d].doomed # {} \/ call[d].file # NoFile => O(d) \in Owners
  BY DEF Typed, CallsOK, CallOK, CallRow, O
<1>7. \A d \in Calls : f \notin call[d].doomed /\ f # call[d].file
  BY <1>2, <1>6, BrandingAssumption DEF StoredInvariant, DoomedOwned, HeldOwned
<1>8. f # NoFile
  BY BrandingAssumption
<1>9. \A d \in Calls : O(d)' = O(d) /\ K(d)' = K(d)
  BY <1>3 DEF O, K
<1>10. ImagesOwned'
  BY <1>4, <1>5 DEF StoredInvariant, ImagesOwned
<1>11. HeldOwned'
  BY <1>3, <1>4, <1>6, <1>7, <1>9 DEF StoredInvariant, HeldOwned
<1>12. DoomedOwned'
  BY <1>3, <1>4, <1>6, <1>7, <1>9 DEF StoredInvariant, DoomedOwned
<1>13. OneImage'
  BY <1>5 DEF StoredInvariant, OneImage
<1>14. OneHolder'
  BY <1>3, <1>7 DEF StoredInvariant, OneHolder
<1>15. NewIsNoImage'
  BY <1>3, <1>5 DEF StoredInvariant, NewIsNoImage, New
<1>16. NewIsNotDoomed'
  BY <1>1, <1>3, <1>7, <1>9 DEF StoredInvariant, NewIsNotDoomed, New, At
<1>17. NewIsStored'
  BY <1>1, <1>2, <1>3, <1>9 DEF StoredInvariant, NewIsStored, New
<1>18. UndoneFailed'
  BY <1>1, <1>3 DEF StoredInvariant, UndoneFailed
<1>19. DoomedImage'
  <2>1. \A d \in Calls : call[d].pc \in {"put", "row", "attach", "clear", "null"} =>
            O(d) \in Owners
    BY DEF Typed, CallsOK, CallOK, O
  <2>2. \A d \in Calls : call'[d].pc \in {"put", "row", "attach", "clear", "null"} =>
            call[d].pc \in {"put", "row", "attach", "clear", "null"}
    BY <1>1, <1>3 DEF At
  <2>3. \A d \in Calls : call'[d].doomed = call[d].doomed /\ call'[d].owner = O(d)
                         /\ call'[d].kind = K(d)
    BY <1>3 DEF O, K
  <2> QED BY <1>1, <2>1, <2>2, <2>3 DEF StoredInvariant, DoomedImage, SameImages, Image, O, K
<1>20. DroppedIsNoImage'
  BY <1>3, <1>5 DEF StoredInvariant, DroppedIsNoImage
<1>21. ReferencedIsStored'
  BY <1>1, <1>2, <1>5 DEF StoredInvariant, ReferencedIsStored
<1> QED BY <1>10, <1>11, <1>12, <1>13, <1>14, <1>15, <1>16, <1>17, <1>18, <1>19, <1>20, <1>21
        DEF StoredInvariant

LEMMA CreateRowKeepsStored ==
    ASSUME Typed, StoredInvariant, Typed', NEW c \in Calls, CreateRow(c)
    PROVE  StoredInvariant'
<1>1. /\ SameImages /\ At(c, "row") /\ O(c) \in owners
      /\ UNCHANGED << owners, bytes, owner, failed >>
      /\ rows' = rows \cup {call[c].file}
      /\ Becomes(c, "attach", O(c), K(c), call[c].file, call[c].doomed)
  BY CreatingRow
<1>2. New(c)
  BY <1>1 DEF New, At
<1>3. /\ HeldOwned' /\ DoomedOwned' /\ OneHolder' /\ NewIsNotDoomed'
      /\ NewIsNoImage' /\ DoomedImage' /\ DroppedIsNoImage'
  BY <1>1, <1>2, UploadGoesOn
<1>4. ImagesOwned' /\ OneImage'
  BY <1>1, SameStored
<1>5. NewIsStored'
  BY <1>1 DEF StoredInvariant, NewIsStored, New, Becomes, O, At
<1>6. UndoneFailed'
  BY <1>1 DEF StoredInvariant, UndoneFailed, Becomes
<1>7. ReferencedIsStored'
  BY <1>1 DEF StoredInvariant, ReferencedIsStored, SameImages, Image
<1> QED BY <1>3, <1>4, <1>5, <1>6, <1>7 DEF StoredInvariant

\* The reference that an upload stores, answered or not.
LEMMA AttachedIsStored ==
    ASSUME Typed, StoredInvariant, Typed', NEW c \in Calls, At(c, "attach"), O(c) \in owners,
           OneImageSet(O(c), K(c), call[c].file), UNCHANGED << owners, rows, bytes, owner >>,
           failed \subseteq failed',
           \A d \in Calls : d # c => call'[d] = call[d],
           call'[c].pc \in {"idle", "drop", "undo"},
           call'[c].doomed \in {{}, call[c].doomed}
    PROVE  /\ ImagesOwned' /\ OneImage' /\ NewIsNoImage' /\ NewIsNotDoomed' /\ DoomedImage'
           /\ DroppedIsNoImage' /\ ReferencedIsStored'
<1> DEFINE f == call[c].file
<1>1. O(c) \in Owners /\ K(c) \in Kinds /\ f \in Files /\ f # NoFile /\ New(c)
  BY BrandingAssumption DEF Typed, CallsOK, CallOK, At, O, K, New
<1>2. \A p \in Owners, l \in Kinds :
          Image(p, l)' = IF p = O(c) /\ l = K(c) THEN f ELSE Image(p, l)
  BY DEF OneImageSet, Image
<1>3. \A p \in Owners, l \in Kinds : Image(p, l) # f
  BY <1>1 DEF StoredInvariant, NewIsNoImage
<1>4. /\ ~ New(c)'
      /\ \A d \in Calls : d # c => O(d)' = O(d) /\ K(d)' = K(d) /\ (New(d)' <=> New(d))
  BY DEF O, K, New
<1>5. \A d \in Calls : f \in call[d].doomed => call[d].pc = "tenant"
  BY <1>1 DEF StoredInvariant, NewIsNotDoomed
<1>6. ImagesOwned'
  BY <1>1, <1>2 DEF StoredInvariant, ImagesOwned, HeldOwned
<1>7. OneImage'
  BY <1>2, <1>3 DEF StoredInvariant, OneImage
<1>8. NewIsNoImage'
  <2>1. \A d \in Calls : d # c => call[d].file # f
    BY <1>1 DEF StoredInvariant, OneHolder
  <2> QED BY <1>2, <1>4, <2>1 DEF StoredInvariant, NewIsNoImage
<1>9. NewIsNotDoomed'
  <2>1. \A d \in Calls : call'[d].doomed \subseteq call[d].doomed
    OBVIOUS
  <2>2. \A d \in Calls : call[d].pc = "tenant" => call'[d].pc = "tenant"
    BY DEF At
  <2>3. \A d \in Calls : New(d)' => /\ New(d) /\ call'[d] = call[d]
    BY <1>4
  <2> QED BY <1>4, <2>1, <2>2, <2>3 DEF StoredInvariant, NewIsNotDoomed
<1>10. DoomedImage'
  <2>1. ASSUME NEW d \in Calls, call'[d].pc \in {"put", "row", "attach", "clear", "null"},
               NEW l \in Kinds, Image(O(d), l)' \in call'[d].doomed
        PROVE  l = K(d)'
    <3>1. d # c /\ call'[d] = call[d] /\ O(d) \in Owners
      BY <2>1 DEF Typed, CallsOK, CallOK, O
    <3>2. Image(O(d), l)' = branding'[O(d)].image[l]
      BY <1>4, <3>1 DEF Image
    <3>3. branding'[O(d)].image[l] \in {f, Image(O(d), l)}
      BY <3>1 DEF OneImageSet
    <3>4. Image(O(d), l) \in call[d].doomed
      BY <1>5, <2>1, <3>1, <3>2, <3>3
    <3> QED BY <1>4, <2>1, <3>1, <3>4 DEF StoredInvariant, DoomedImage
  <2> QED BY <2>1 DEF DoomedImage
<1>11. DroppedIsNoImage'
  <2>1. ASSUME NEW d \in Calls, call'[d].pc = "drop", NEW p \in Owners, NEW l \in Kinds,
               Image(p, l)' \in call'[d].doomed
        PROVE  FALSE
    <3>1. CASE d # c
      <4>1. call'[d] = call[d] /\ f \notin call[d].doomed
        BY <1>5, <2>1, <3>1
      <4> QED BY <1>2, <2>1, <4>1 DEF StoredInvariant, DroppedIsNoImage
    <3>2. CASE d = c
      <4>1. Image(p, l)' \in call[c].doomed /\ f \notin call[c].doomed
        BY <1>5, <2>1, <3>2 DEF At
      <4>2. Image(p, l) \in call[c].doomed /\ ~ (p = O(c) /\ l = K(c))
        BY <1>2, <4>1
      <4>3. Image(p, l) # NoFile
        BY <4>2, BrandingAssumption DEF Typed, CallsOK, CallRow
      <4>4. p = O(c)
        BY <4>2, <4>3 DEF StoredInvariant, ImagesOwned, DoomedOwned
      <4>5. l = K(c)
        BY <4>2, <4>4 DEF StoredInvariant, DoomedImage, At
      <4> QED BY <4>2, <4>4, <4>5
    <3> QED BY <3>1, <3>2
  <2> QED BY <2>1 DEF DroppedIsNoImage
<1>12. ReferencedIsStored'
  <2>1. f \in rows /\ f \in bytes
    BY <1>1 DEF StoredInvariant, NewIsStored, At
  <2> QED BY <1>2, <2>1 DEF StoredInvariant, ReferencedIsStored
<1> QED BY <1>6, <1>7, <1>8, <1>9, <1>10, <1>11, <1>12

LEMMA SetImageKeepsStored ==
    ASSUME Typed, StoredInvariant, Typed', NEW c \in Calls, SetImage(c)
    PROVE  StoredInvariant'
<1>1. /\ At(c, "attach") /\ O(c) \in owners
      /\ UNCHANGED << owners, rows, bytes, owner, failed >>
      /\ OneImageSet(O(c), K(c), call[c].file)
      /\ Dropped(c, call[c].doomed)
  BY SettingReference
<1>2. /\ \A d \in Calls : d # c => call'[d] = call[d]
      /\ call'[c].file = NoFile /\ call'[c].doomed = call[c].doomed
      /\ \/ call'[c].pc = "idle" /\ call[c].doomed = {}
         \/ call'[c].pc = "drop" /\ call'[c].owner = O(c)
  BY <1>1 DEF Dropped, Becomes
<1>3. /\ ImagesOwned' /\ OneImage' /\ NewIsNoImage' /\ NewIsNotDoomed' /\ DoomedImage'
      /\ DroppedIsNoImage' /\ ReferencedIsStored'
  BY <1>1, <1>2, AttachedIsStored
<1>4. HeldOwned' /\ OneHolder'
  BY <1>1, <1>2 DEF StoredInvariant, HeldOwned, OneHolder, O
<1>5. DoomedOwned'
  BY <1>1, <1>2 DEF StoredInvariant, DoomedOwned, O
<1>6. NewIsStored' /\ UndoneFailed'
  BY <1>1, <1>2 DEF StoredInvariant, NewIsStored, UndoneFailed, New, O
<1> QED BY <1>3, <1>4, <1>5, <1>6 DEF StoredInvariant

LEMMA UploadFailsKeepsStored ==
    ASSUME Typed, StoredInvariant, Typed', NEW c \in Calls, UploadFails(c)
    PROVE  StoredInvariant'
<1>1. /\ New(c) /\ UNCHANGED << owners, rows, bytes, owner >>
      /\ failed' = failed \cup {call[c].file}
      /\ Becomes(c, "undo", O(c), K(c), call[c].file, call[c].doomed)
      /\ \/ SameImages
         \/ /\ At(c, "attach") /\ O(c) \in owners
            /\ OneImageSet(O(c), K(c), call[c].file)
  BY UploadFailing
<1>2. /\ \A d \in Calls : d # c => call'[d] = call[d]
      /\ call'[c].pc = "undo" /\ call'[c].doomed = call[c].doomed
      /\ call'[c].file = call[c].file
  BY <1>1 DEF Becomes
<1>3. /\ HeldOwned' /\ DoomedOwned' /\ OneHolder' /\ NewIsNotDoomed'
      /\ SameImages => NewIsNoImage' /\ DoomedImage' /\ DroppedIsNoImage'
  BY <1>1, UploadGoesOn
<1>4. /\ ImagesOwned' /\ OneImage' /\ NewIsNoImage' /\ DoomedImage' /\ DroppedIsNoImage'
      /\ ReferencedIsStored'
  <2>1. CASE SameImages
    <3>1. ReferencedIsStored'
      BY <1>1, <2>1 DEF StoredInvariant, ReferencedIsStored, SameImages, Image
    <3> QED BY <1>1, <1>3, <2>1, <3>1, SameStored
  <2>2. CASE /\ At(c, "attach") /\ O(c) \in owners
             /\ OneImageSet(O(c), K(c), call[c].file)
    <3>1. failed \subseteq failed'
      BY <1>1
    <3> QED BY <1>1, <1>2, <2>2, <3>1, AttachedIsStored
  <2> QED BY <1>1, <2>1, <2>2
<1>5. NewIsStored' /\ UndoneFailed'
  BY <1>1, <1>2 DEF StoredInvariant, NewIsStored, UndoneFailed, New, O
<1> QED BY <1>3, <1>4, <1>5 DEF StoredInvariant

LEMMA UndoKeepsStored ==
    ASSUME Typed, StoredInvariant, Typed', NEW c \in Calls, Undo(c)
    PROVE  StoredInvariant'
<1>1. /\ SameImages /\ At(c, "undo") /\ UNCHANGED << owners, rows, owner, failed >>
      /\ Becomes(c, "idle", NoOwner, NoKind, NoFile, {})
      /\ bytes' \in {bytes, bytes \ {call[c].file}}
  BY Undoing
<1>2. ImagesShrink
  BY <1>1, Shrinking
<1>3. call[c].file \in failed
  BY <1>1 DEF StoredInvariant, UndoneFailed, At
<1>4. \A p \in Owners, l \in Kinds : branding'[p].image[l] # NoFile =>
          branding'[p].image[l] \in rows' /\ branding'[p].image[l] \in bytes' \cup failed
  BY <1>1, <1>3 DEF SameImages, StoredInvariant, ReferencedIsStored
<1>5. \A d \in Calls : d # c /\ New(d) => call[d].file # call[c].file
  BY BrandingAssumption DEF StoredInvariant, OneHolder, New, Typed, CallsOK, CallOK
<1>6. \A d \in Calls : d # c /\ New(d) /\ O(d) \in owners' =>
          /\ call[d].file \in bytes'
          /\ call[d].pc = "attach" => call[d].file \in rows'
  BY <1>1, <1>5 DEF StoredInvariant, NewIsStored
<1> QED BY <1>1, <1>2, <1>4, <1>6, NothingStored

LEMMA ReadKeepsStored ==
    ASSUME Typed, StoredInvariant, Typed', NEW c \in Calls, ReadPrevious(c)
    PROVE  StoredInvariant'
<1>1. /\ SameImages /\ Kept /\ At(c, "previous")
      /\ Becomes(c, "put", O(c), K(c), NoFile, Images(O(c), {K(c)}))
  BY Reading
<1>2. O(c) \in Owners /\ K(c) \in Kinds
  BY <1>1 DEF At, Typed, CallsOK, CallOK, O, K
<1>3. ImagesShrink
  BY <1>1, Shrinking
<1>4. /\ \A f \in Images(O(c), {K(c)}) : owner[f] = O(c)
      /\ \A l \in Kinds : Image(O(c), l) \in Images(O(c), {K(c)}) => l = K(c)
      /\ \A d \in Calls : New(d) => call[d].file \notin Images(O(c), {K(c)})
  BY <1>2, ImagesAreOwn
<1>5. /\ UNCHANGED << owner, failed >> /\ owners' \subseteq owners
      /\ \A p \in Owners, l \in Kinds : branding'[p].image[l] # NoFile =>
             branding'[p].image[l] \in rows' /\ branding'[p].image[l] \in bytes' \cup failed
      /\ \A d \in Calls : New(d) /\ O(d) \in owners' =>
             /\ call[d].file \in bytes'
             /\ call[d].pc = "attach" => call[d].file \in rows'
  BY <1>1, <1>3, KeptStored
<1> DEFINE S == Images(O(c), {K(c)})
<1>6. Becomes(c, "put", O(c), K(c), NoFile, S)
  BY <1>1
<1> HIDE DEF S
<1>7. /\ \A f \in S : owner[f] = O(c)
      /\ \A l \in Kinds : Image(O(c), l) \in S => l = K(c)
      /\ \A d \in Calls : New(d) => call[d].file \notin S
  BY <1>4 DEF S
<1> QED BY <1>3, <1>5, <1>6, <1>7, NothingStored

LEMMA StoredStep == Typed /\ StoredInvariant /\ [Next]_vars => StoredInvariant'
<1> SUFFICES ASSUME Typed, StoredInvariant, [Next]_vars PROVE StoredInvariant'
  OBVIOUS
<1>1. Typed'
  BY TypedStep
<1>2. CASE UNCHANGED vars
  BY <1>2 DEF vars, StoredInvariant, ImagesOwned, HeldOwned, DoomedOwned, OneImage, OneHolder,
     NewIsNoImage, NewIsNotDoomed, NewIsStored, UndoneFailed, DoomedImage, DroppedIsNoImage,
     ReferencedIsStored, Image, O, K, New
<1>3. ASSUME NEW c \in Calls, NEW o \in Owners, Start(c, o) PROVE StoredInvariant'
  BY <1>1, <1>3, Starting, StartKeepsStored
<1>4. ASSUME NEW c \in Calls, UploadStep(c) PROVE StoredInvariant'
  BY <1>1, <1>4, ReadKeepsStored, PutKeepsStored, CreateRowKeepsStored, SetImageKeepsStored,
     UploadFailsKeepsStored, UndoKeepsStored DEF UploadStep
<1>5. ASSUME NEW c \in Calls, RemovalStep(c) \/ Abandon(c) PROVE StoredInvariant'
  BY <1>1, <1>5, RemovalKeepsStored
<1> QED BY <1>2, <1>3, <1>4, <1>5 DEF Next

LEMMA StoredInit == Init => StoredInvariant
<1> SUFFICES ASSUME Init PROVE StoredInvariant
  OBVIOUS
<1>1. \A c \in Calls : call[c].pc = "idle" /\ call[c].file = NoFile /\ call[c].doomed = {}
  BY IdleOK DEF Init
<1>2. \A o \in Owners, k \in Kinds : Image(o, k) = NoFile
  BY NoRowOK DEF Init, Image
<1> QED BY <1>1, <1>2 DEF StoredInvariant, ImagesOwned, HeldOwned, DoomedOwned, OneImage,
     OneHolder, NewIsNoImage, NewIsNotDoomed, NewIsStored, UndoneFailed, DoomedImage,
     DroppedIsNoImage, ReferencedIsStored, New

\* An image that branding refers to has its row and, unless its upload was answered with
\* an error, its bytes.
THEOREM ImagesAreStored == Spec => []ReferencedIsStored
<1>1. StoredInvariant => ReferencedIsStored
  BY DEF StoredInvariant
<1> QED BY <1>1, TypedInit, TypedStep, StoredInit, StoredStep, PTL DEF Spec

-----------------------------------------------------------------------------
(* Nothing is left behind *)

\* A step of c's that touches nothing but o's images and files.
Local(c, o) ==
    /\ \A d \in Calls : d # c => call'[d] = call[d]
    /\ O(c) \in {o, NoOwner} /\ call'[c].owner \in {o, NoOwner}
    /\ disturbed \subseteq disturbed' /\ failed \subseteq failed'
    /\ \A p \in Owners : p # o => \A k \in Kinds : branding'[p].image[k] = Image(p, k)
    /\ \A p \in Owners, f \in Files : p # o =>
          /\ owner'[f] = p <=> owner[f] = p
          /\ owner[f] = p => (f \in rows' <=> f \in rows) /\ (f \in bytes' <=> f \in bytes)

AccountedBy(o, c) == \A f \in Left(o) : IsImage(o, f) \/ Has(c, f)

LEMMA OnlyCall ==
    ASSUME CleanInvariant, NEW c \in Calls, O(c) \in Owners \ disturbed
    PROVE  Takes(c) /\ AccountedBy(O(c), c)
BY DEF CleanInvariant, Alone, TakesAlong, Accounted, AccountedBy

LEMMA LocalIsClean ==
    ASSUME Typed, CleanInvariant, Typed', NEW c \in Calls, NEW o \in Owners, Local(c, o),
           O(c) = o \/ \A d \in Calls : O(d) = o => o \in disturbed',
           o \notin disturbed' /\ call'[c].owner = o => Takes(c)',
           o \notin disturbed' => AccountedBy(o, c)'
    PROVE  CleanInvariant'
<1>1. \A d \in Calls : d # c => /\ call'[d] = call[d] /\ O(d)' = O(d) /\ K(d)' = K(d)
  BY DEF Local, O, K
<1>2. O(c)' \in {o, NoOwner} /\ NoOwner \notin Owners
  BY BrandingAssumption DEF Local, O
<1>3. \A d \in Calls : d # c /\ o \notin disturbed' => O(d) # o
  BY DEF CleanInvariant, Alone, Local
<1>4. Alone'
  BY <1>1, <1>2, <1>3 DEF CleanInvariant, Alone, Local
<1>5. TakesAlong'
  <2> SUFFICES ASSUME NEW d \in Calls, O(d)' \in Owners \ disturbed' PROVE Takes(d)'
    BY DEF TakesAlong
  <2>1. CASE d = c
    BY <1>2, <2>1 DEF O
  <2>2. CASE d # c
    <3>1. call'[d] = call[d] /\ O(d)' = O(d) /\ K(d)' = K(d) /\ O(d) \in Owners
      BY <1>1, <2>2
    <3>2. O(d) \notin disturbed /\ O(d) # o
      BY <1>3, <2>2, <3>1 DEF Local
    <3>3. Takes(d)
      BY <3>1, <3>2 DEF CleanInvariant, TakesAlong
    <3>4. \A k \in Kinds : branding'[O(d)].image[k] = Image(O(d), k)
      BY <3>1, <3>2 DEF Local
    <3>5. \A k \in Kinds : Image(O(d), k)' = Image(O(d), k)
      BY <3>1, <3>4 DEF Image
    <3>6. Images(O(d), Kinds)' = Images(O(d), Kinds)
      BY <3>5 DEF Images
    <3>7. K(d) \in Kinds => Images(O(d), {K(d)})' = Images(O(d), {K(d)})
      BY <3>1, <3>5 DEF Images
    <3>8. call[d].pc \in {"put", "row", "attach", "undo", "clear", "null"} => K(d) \in Kinds
      BY DEF Typed, CallsOK, CallOK, K
    <3>9. {f \in rows : owner[f] = O(d)}' = {f \in rows : owner[f] = O(d)}
      BY <3>1, <3>2 DEF Local, Typed, StateTyped
    <3> QED BY <3>1, <3>3, <3>5, <3>6, <3>7, <3>8, <3>9 DEF Takes
  <2> QED BY <2>1, <2>2
<1>6. Accounted'
  <2> SUFFICES ASSUME NEW p \in Owners, p \notin disturbed', NEW f \in Left(p)'
               PROVE  IsImage(p, f)' \/ \E d \in Calls : O(d)' = p /\ Has(d, f)'
    BY DEF Accounted
  <2>1. f \in Files
    BY DEF Left
  <2>2. CASE p = o
    <3>1. IsImage(o, f)' \/ Has(c, f)'
      BY <2>2 DEF AccountedBy
    <3>2. Has(c, f)' => O(c)' = o
      BY <1>2, <2>1, BrandingAssumption DEF Has, Typed, CallsOK, CallOK, O
    <3> QED BY <2>2, <3>1, <3>2
  <2>3. CASE p # o
    <3>1. f \in Left(p) /\ p \notin disturbed
      BY <2>1, <2>3 DEF Local, Left
    <3>2. IsImage(p, f) \/ \E d \in Calls : O(d) = p /\ Has(d, f)
      BY <3>1 DEF CleanInvariant, Accounted
    <3>3. IsImage(p, f) => IsImage(p, f)'
      BY <2>3 DEF Local, IsImage, Image
    <3>4. ASSUME NEW d \in Calls, O(d) = p, Has(d, f) PROVE O(d)' = p /\ Has(d, f)'
      <4>1. d # c
        BY <1>2, <2>3, <3>4 DEF Local
      <4> QED BY <1>1, <3>4, <4>1 DEF Has
    <3> QED BY <3>2, <3>3, <3>4
  <2> QED BY <2>2, <2>3
<1> QED BY <1>4, <1>5, <1>6 DEF CleanInvariant

\* A step of a request on its way, which keeps all but the images of its owner.
LEMMA LocalByKept ==
    ASSUME Typed, NEW c \in Calls, ~ At(c, "idle"), Kept, disturbed \subseteq disturbed',
           \A d \in Calls : d # c => call'[d] = call[d],
           call'[c].owner \in {O(c), NoOwner},
           \/ SameImages \/ ImagesGone(O(c))
           \/ \E k \in Kinds : OneImageSet(O(c), k, NoFile)
    PROVE  Local(c, O(c)) /\ O(c) \in Owners /\ \A o \in Owners : Left(o)' = Left(o)
<1>1. O(c) \in Owners
  BY OwnerTyped DEF Typed
<1>2. \A p \in Owners : p # O(c) => \A k \in Kinds : branding'[p].image[k] = Image(p, k)
  BY DEF SameImages, ImagesGone, OneImageSet
<1> QED BY <1>1, <1>2 DEF Local, Kept, Left

\* What is not referred to any more was doomed, and is dropped next.
LEMMA DroppedAccount ==
    ASSUME NEW o, NEW c \in Calls, AccountedBy(o, c), call[c].file = NoFile,
           Left(o)' \subseteq Left(o),
           \A f \in Left(o)' : IsImage(o, f) => IsImage(o, f)' \/ f \in call[c].doomed,
           Dropped(c, call[c].doomed)
    PROVE  AccountedBy(o, c)'
<1>1. call'[c].doomed = call[c].doomed
  BY DEF Dropped, Becomes
<1>2. \A f \in Left(o) : f # NoFile
  BY BrandingAssumption DEF Left
<1> QED BY <1>1, <1>2 DEF AccountedBy, Has

LEMMA SameAccount ==
    ASSUME NEW o, NEW c \in Calls, o \in Owners, AccountedBy(o, c), SameImages,
           Left(o)' \subseteq Left(o),
           \A f \in Left(o)' : Has(c, f) => IsImage(o, f) \/ Has(c, f)'
    PROVE  AccountedBy(o, c)'
<1>1. \A f : IsImage(o, f)' <=> IsImage(o, f)
  BY DEF SameImages, IsImage, Image
<1> QED BY <1>1 DEF AccountedBy

LEMMA StartIsClean ==
    ASSUME Typed, CleanInvariant, Typed', NEW c \in Calls, Started(c)
    PROVE  CleanInvariant'
<1>1. PICK o \in Owners :
         /\ SameImages /\ Kept
         /\ \/ \E k \in Kinds : \/ Begun(c, "previous", o, k, {})
                                \/ Begun(c, "put", o, k, Images(o, {k}))
                                \/ Begun(c, "clear", o, k, Images(o, {k}))
            \/ Begun(c, "reset", o, NoKind, Images(o, Kinds))
            \/ Begun(c, "tenant", o, NoKind, {f \in rows : owner[f] = o})
            \/ Begun(c, "paint", o, NoKind, {})
            \/ Begun(c, "unpaint", o, NoKind, {})
            \/ Begun(c, "remove", o, NoKind, {}) /\ \A k \in Kinds : Image(o, k) = NoFile
  BY DEF Started
<1>2. /\ At(c, "idle") /\ call'[c].owner = o
      /\ \A d \in Calls : d # c => call'[d] = call[d]
      /\ disturbed' = IF \E d \in Calls : O(d) = o THEN disturbed \cup {o} ELSE disturbed
  BY <1>1 DEF Begun, Becomes
<1>3. O(c) = NoOwner /\ call[c].file = NoFile /\ call[c].doomed = {}
  BY <1>2, IdleData DEF Typed
<1>4. Local(c, o)
  BY <1>1, <1>2, <1>3 DEF Local, Kept, SameImages
<1>5. \A d \in Calls : O(d) = o => o \in disturbed'
  BY <1>2
<1>6. \A k \in Kinds : Image(o, k)' = Image(o, k)
  BY <1>1 DEF SameImages, Image
<1>7. /\ Images(o, Kinds)' = Images(o, Kinds)
      /\ \A k \in Kinds : Images(o, {k})' = Images(o, {k})
  BY <1>6 DEF Images
<1>8. O(c)' = o
  BY <1>2 DEF O
<1>9. Takes(c)'
  <2>1. CASE \E k \in Kinds : \/ Begun(c, "put", o, k, Images(o, {k}))
                             \/ Begun(c, "clear", o, k, Images(o, {k}))
    <3>1. PICK k \in Kinds : \/ Begun(c, "put", o, k, Images(o, {k}))
                             \/ Begun(c, "clear", o, k, Images(o, {k}))
      BY <2>1
    <3>2. call'[c].pc \in {"put", "clear"} /\ call'[c].doomed = Images(o, {k}) /\ K(c)' = k
      BY <3>1 DEF Begun, Becomes, K
    <3>3. call'[c].doomed = Images(O(c), {K(c)})'
      BY <1>7, <1>8, <3>2 DEF Images, Image
    <3> QED BY <3>2, <3>3 DEF Takes
  <2>2. CASE Begun(c, "reset", o, NoKind, Images(o, Kinds))
    <3>1. call'[c].pc = "reset" /\ call'[c].doomed = Images(o, Kinds)
      BY <2>2 DEF Begun, Becomes
    <3>2. call'[c].doomed = Images(O(c), Kinds)'
      BY <1>7, <1>8, <3>1 DEF Images, Image
    <3> QED BY <3>1, <3>2 DEF Takes
  <2>3. CASE Begun(c, "tenant", o, NoKind, {f \in rows : owner[f] = o})
    <3>1. call'[c].pc = "tenant" /\ call'[c].doomed = {f \in rows : owner[f] = o}
      BY <2>3 DEF Begun, Becomes
    <3>2. call'[c].doomed = {f \in rows : owner[f] = O(c)}'
      BY <1>1, <1>8, <3>1 DEF Kept
    <3> QED BY <3>1, <3>2 DEF Takes
  <2>4. CASE Begun(c, "remove", o, NoKind, {}) /\ \A k \in Kinds : Image(o, k) = NoFile
    <3>1. call'[c].pc = "remove" /\ call'[c].doomed = {}
      BY <2>4 DEF Begun, Becomes
    <3>2. \A k \in Kinds : Image(O(c), k)' = NoFile
      BY <1>6, <1>8, <2>4 DEF Image
    <3>3. Images(O(c), Kinds)' = {}
      BY <3>2 DEF Images
    <3> QED BY <3>1, <3>2, <3>3 DEF Takes
  <2>5. CASE \/ \E k \in Kinds : Begun(c, "previous", o, k, {})
             \/ Begun(c, "paint", o, NoKind, {})
             \/ Begun(c, "unpaint", o, NoKind, {})
    BY <2>5 DEF Begun, Becomes, Takes
  <2> QED BY <1>1, <2>1, <2>2, <2>3, <2>4, <2>5
<1>10. ASSUME o \notin disturbed' PROVE AccountedBy(o, c)'
  <2>1. o \notin disturbed /\ \A d \in Calls : O(d) # o
    BY <1>2, <1>10
  <2>2. AccountedBy(o, c)
    BY <2>1 DEF CleanInvariant, Accounted, AccountedBy
  <2>3. Left(o)' = Left(o)
    BY <1>1 DEF Kept, Left
  <2>4. \A f \in Left(o) : ~ Has(c, f)
    BY <1>3, BrandingAssumption DEF Has, Left
  <2> QED BY <1>1, <2>2, <2>3, <2>4, SameAccount
<1> QED BY <1>4, <1>5, <1>9, <1>10, LocalIsClean

LEMMA ReadIsClean ==
    ASSUME Typed, CleanInvariant, Typed', NEW c \in Calls, ReadPrevious(c)
    PROVE  CleanInvariant'
<1> DEFINE S == Images(O(c), {K(c)})
<1>1. /\ SameImages /\ Kept /\ disturbed' = disturbed /\ At(c, "previous")
      /\ Becomes(c, "put", O(c), K(c), NoFile, S)
  BY Reading
<1> HIDE DEF S
<1>2. /\ ~ At(c, "idle") /\ call[c].file = NoFile /\ call[c].doomed = {} /\ K(c) \in Kinds
      /\ \A d \in Calls : d # c => call'[d] = call[d]
      /\ call'[c].owner = O(c) /\ O(c)' = O(c) /\ K(c)' = K(c)
      /\ call'[c].pc = "put" /\ call'[c].doomed = S
  BY <1>1 DEF At, Typed, CallsOK, CallOK, Becomes, O, K
<1>3. Local(c, O(c)) /\ O(c) \in Owners /\ \A o \in Owners : Left(o)' = Left(o)
  BY <1>1, <1>2, LocalByKept
<1>4. Takes(c)'
  <2>1. S = Images(O(c), {K(c)})'
    BY <1>1, <1>2, <1>3 DEF S, Images, Image, SameImages
  <2> QED BY <1>2, <2>1 DEF Takes
<1>5. ASSUME O(c) \notin disturbed' PROVE AccountedBy(O(c), c)'
  <2>1. AccountedBy(O(c), c)
    BY <1>1, <1>3, <1>5, OnlyCall
  <2>2. \A f \in Left(O(c)) : ~ Has(c, f)
    BY <1>2, BrandingAssumption DEF Has, Left
  <2>3. \A f \in Left(O(c)) : IsImage(O(c), f)
    BY <2>1, <2>2 DEF AccountedBy
  <2>4. \A f \in Left(O(c)) : IsImage(O(c), f)'
    BY <1>1, <1>2, <1>3, <2>3 DEF IsImage, SameImages, Image
  <2> QED BY <1>2, <1>3, <2>4 DEF AccountedBy
<1> QED BY <1>2, <1>3, <1>4, <1>5, LocalIsClean

LEMMA PutIsClean ==
    ASSUME Typed, StoredInvariant, CleanInvariant, Typed', NEW c \in Calls, Put(c)
    PROVE  CleanInvariant'
<1>1. SameImages /\ At(c, "put") /\ UNCHANGED << owners, rows, failed, disturbed >>
  BY Putting
<1>2. PICK f \in Files : /\ owner[f] = NoOwner /\ owner' = [owner EXCEPT ![f] = O(c)]
                         /\ bytes' = bytes \cup {f}
                         /\ Becomes(c, "row", O(c), K(c), f, call[c].doomed)
  BY Putting
<1>3. /\ ~ At(c, "idle") /\ call[c].file = NoFile /\ K(c) \in Kinds
      /\ \A d \in Calls : d # c => call'[d] = call[d]
      /\ call'[c].owner = O(c) /\ O(c)' = O(c) /\ K(c)' = K(c)
      /\ call'[c].pc = "row" /\ call'[c].file = f /\ call'[c].doomed = call[c].doomed
  BY <1>1, <1>2 DEF At, Typed, CallsOK, CallOK, Becomes, O, K
<1>4. PICK o \in Owners : o = O(c)
  BY <1>3, OwnerTyped DEF Typed
<1>5. owner'[f] = o /\ \A g \in Files : g # f => owner'[g] = owner[g]
  BY <1>2, <1>4 DEF Typed, StateTyped
<1>6. Local(c, o)
  BY <1>1, <1>2, <1>3, <1>4, <1>5, BrandingAssumption DEF Local, SameImages
<1>7. ASSUME o \notin disturbed' PROVE Takes(c) /\ AccountedBy(o, c)
  BY <1>1, <1>4, <1>7, OnlyCall
<1>8. ASSUME o \notin disturbed' PROVE Takes(c)'
  <2>1. call[c].doomed = Images(o, {K(c)})
    BY <1>1, <1>4, <1>7, <1>8 DEF Takes, At
  <2>2. Images(O(c), {K(c)})' = Images(o, {K(c)})
    BY <1>1, <1>3, <1>4 DEF Images, Image, SameImages
  <2> QED BY <1>3, <2>1, <2>2 DEF Takes
<1>9. ASSUME o \notin disturbed' PROVE AccountedBy(o, c)'
  <2>1. \A g \in Left(o)' : g = f \/ g \in Left(o)
    BY <1>1, <1>2, <1>5 DEF Left
  <2>2. \A g \in Left(o) : g # NoFile
    BY BrandingAssumption DEF Left
  <2>3. \A g \in Left(o) : IsImage(o, g) => IsImage(o, g)'
    BY <1>1 DEF SameImages, IsImage, Image
  <2> QED BY <1>3, <1>7, <1>9, <2>1, <2>2, <2>3 DEF AccountedBy, Has
<1> QED BY <1>4, <1>6, <1>8, <1>9, LocalIsClean

LEMMA CreateRowIsClean ==
    ASSUME Typed, StoredInvariant, CleanInvariant, Typed', NEW c \in Calls, CreateRow(c)
    PROVE  CleanInvariant'
<1>1. /\ SameImages /\ At(c, "row") /\ UNCHANGED << bytes, owner, failed, disturbed >>
      /\ rows' = rows \cup {call[c].file}
      /\ Becomes(c, "attach", O(c), K(c), call[c].file, call[c].doomed)
  BY CreatingRow
<1>2. /\ ~ At(c, "idle") /\ K(c) \in Kinds /\ call[c].file \in Files
      /\ \A d \in Calls : d # c => call'[d] = call[d]
      /\ call'[c].owner = O(c) /\ O(c)' = O(c) /\ K(c)' = K(c)
      /\ call'[c].pc = "attach" /\ call'[c].file = call[c].file
      /\ call'[c].doomed = call[c].doomed
  BY <1>1 DEF At, Typed, CallsOK, CallOK, Becomes, O, K
<1>3. PICK o \in Owners : o = O(c)
  BY <1>2, OwnerTyped DEF Typed
<1>4. owner[call[c].file] = o
  BY <1>2, <1>3, BrandingAssumption DEF StoredInvariant, HeldOwned
<1>5. Local(c, o)
  BY <1>1, <1>2, <1>3, <1>4 DEF Local, SameImages
<1>6. ASSUME o \notin disturbed' PROVE Takes(c) /\ AccountedBy(o, c)
  BY <1>1, <1>3, <1>6, OnlyCall
<1>7. ASSUME o \notin disturbed' PROVE Takes(c)'
  <2>1. call[c].doomed = Images(o, {K(c)})
    BY <1>1, <1>3, <1>6, <1>7 DEF Takes, At
  <2>2. Images(O(c), {K(c)})' = Images(o, {K(c)})
    BY <1>1, <1>2, <1>3 DEF Images, Image, SameImages
  <2> QED BY <1>2, <2>1, <2>2 DEF Takes
<1>8. ASSUME o \notin disturbed' PROVE AccountedBy(o, c)'
  <2>1. \A g \in Left(o)' : g = call[c].file \/ g \in Left(o)
    BY <1>1 DEF Left
  <2>2. \A g \in Left(o) : IsImage(o, g) => IsImage(o, g)'
    BY <1>1 DEF SameImages, IsImage, Image
  <2> QED BY <1>2, <1>6, <1>8, <2>1, <2>2 DEF AccountedBy, Has
<1> QED BY <1>3, <1>5, <1>7, <1>8, LocalIsClean

LEMMA SetImageIsClean ==
    ASSUME Typed, StoredInvariant, CleanInvariant, Typed', NEW c \in Calls, SetImage(c)
    PROVE  CleanInvariant'
<1>1. /\ At(c, "attach") /\ UNCHANGED << owners, rows, bytes, owner, failed, disturbed >>
      /\ OneImageSet(O(c), K(c), call[c].file)
      /\ Dropped(c, call[c].doomed)
  BY SettingReference
<1>2. /\ ~ At(c, "idle") /\ K(c) \in Kinds
      /\ \A d \in Calls : d # c => call'[d] = call[d]
      /\ call'[c].owner \in {O(c), NoOwner} /\ call'[c].pc \in {"idle", "drop"}
      /\ call'[c].doomed = call[c].doomed
  BY <1>1 DEF At, Typed, CallsOK, CallOK, Dropped, Becomes, K
<1>3. PICK o \in Owners : o = O(c)
  BY <1>2, OwnerTyped DEF Typed
<1>4. Local(c, o)
  BY <1>1, <1>2, <1>3 DEF Local, OneImageSet
<1>5. Takes(c)'
  BY <1>2 DEF Takes
<1>6. ASSUME o \notin disturbed' PROVE AccountedBy(o, c)'
  <2>1. Takes(c) /\ AccountedBy(o, c)
    BY <1>1, <1>3, <1>6, OnlyCall
  <2>2. call[c].doomed = Images(o, {K(c)})
    BY <1>1, <1>3, <2>1 DEF Takes, At
  <2>3. Left(o)' = Left(o) /\ \A g \in Left(o) : g # NoFile
    BY <1>1, BrandingAssumption DEF Left
  <2>4. \A k \in Kinds : Image(o, k)' = IF k = K(c) THEN call[c].file ELSE Image(o, k)
    BY <1>1, <1>3 DEF OneImageSet, Image
  <2>5. \A g \in Left(o) : IsImage(o, g) => IsImage(o, g)' \/ g \in call[c].doomed
    BY <2>2, <2>3, <2>4 DEF IsImage, Images
  <2>6. \A g \in Left(o) : g = call[c].file => IsImage(o, g)'
    BY <1>2, <2>4 DEF IsImage
  <2> QED BY <1>2, <2>1, <2>3, <2>5, <2>6 DEF AccountedBy, Has
<1> QED BY <1>3, <1>4, <1>5, <1>6, LocalIsClean

LEMMA UploadFailsIsClean ==
    ASSUME Typed, StoredInvariant, CleanInvariant, Typed', NEW c \in Calls, UploadFails(c)
    PROVE  CleanInvariant'
<1>1. /\ New(c) /\ UNCHANGED << rows, bytes, owner >>
      /\ failed' = failed \cup {call[c].file}
      /\ Becomes(c, "undo", O(c), K(c), call[c].file, call[c].doomed)
      /\ \/ SameImages /\ disturbed' = disturbed
         \/ /\ OneImageSet(O(c), K(c), call[c].file)
            /\ disturbed' = disturbed \cup {O(c)}
  BY UploadFailing
<1>2. /\ ~ At(c, "idle") /\ K(c) \in Kinds /\ call[c].pc \in {"row", "attach"}
      /\ call[c].file # NoFile
      /\ \A d \in Calls : d # c => call'[d] = call[d]
      /\ call'[c].owner = O(c) /\ O(c)' = O(c) /\ K(c)' = K(c)
      /\ call'[c].pc = "undo" /\ call'[c].file = call[c].file
      /\ call'[c].doomed = call[c].doomed
  BY <1>1, BrandingAssumption DEF New, At, Typed, CallsOK, CallOK, Becomes, O, K
<1>3. PICK o \in Owners : o = O(c)
  BY <1>2, OwnerTyped DEF Typed
<1>4. Local(c, o)
  BY <1>1, <1>2, <1>3 DEF Local, SameImages, OneImageSet
<1>5. ASSUME o \notin disturbed' PROVE SameImages /\ Takes(c) /\ AccountedBy(o, c)
  BY <1>1, <1>3, <1>5, OnlyCall
<1>6. ASSUME o \notin disturbed' PROVE Takes(c)'
  <2>1. call[c].doomed = Images(o, {K(c)})
    BY <1>2, <1>3, <1>5, <1>6 DEF Takes
  <2>2. Images(O(c), {K(c)})' = Images(o, {K(c)})
    BY <1>2, <1>3, <1>5, <1>6 DEF Images, Image, SameImages
  <2> QED BY <1>2, <2>1, <2>2 DEF Takes
<1>7. ASSUME o \notin disturbed' PROVE AccountedBy(o, c)'
  <2>1. \A g \in Left(o)' : g \in Left(o)
    BY <1>1 DEF Left
  <2>2. \A g \in Left(o) : IsImage(o, g) => IsImage(o, g)'
    BY <1>5, <1>7 DEF SameImages, IsImage, Image
  <2> QED BY <1>2, <1>5, <1>7, <2>1, <2>2 DEF AccountedBy, Has
<1> QED BY <1>3, <1>4, <1>6, <1>7, LocalIsClean

LEMMA UndoIsClean ==
    ASSUME Typed, StoredInvariant, CleanInvariant, Typed', NEW c \in Calls, Undo(c)
    PROVE  CleanInvariant'
<1>1. /\ SameImages /\ At(c, "undo") /\ UNCHANGED << rows, owner, failed >>
      /\ Becomes(c, "idle", NoOwner, NoKind, NoFile, {})
      /\ \/ bytes' = bytes \ {call[c].file} /\ disturbed' = disturbed
         \/ bytes' = bytes /\ disturbed' = disturbed \cup {O(c)}
  BY Undoing
<1>2. /\ ~ At(c, "idle") /\ call[c].file \in Files /\ call[c].file # NoFile
      /\ \A d \in Calls : d # c => call'[d] = call[d]
      /\ call'[c].owner = NoOwner /\ call'[c].pc = "idle"
      /\ call'[c].doomed = {} /\ call'[c].file = NoFile
  BY <1>1, BrandingAssumption DEF At, Typed, CallsOK, CallOK, Becomes
<1>3. PICK o \in Owners : o = O(c)
  BY <1>2, OwnerTyped DEF Typed
<1>4. owner[call[c].file] = o /\ call[c].file \in failed
  BY <1>1, <1>2, <1>3 DEF StoredInvariant, HeldOwned, UndoneFailed, At
<1>5. Local(c, o)
  BY <1>1, <1>2, <1>3, <1>4 DEF Local, SameImages
<1>6. ASSUME o \notin disturbed' PROVE AccountedBy(o, c)'
  <2>1. Takes(c) /\ AccountedBy(o, c) /\ bytes' = bytes \ {call[c].file}
    BY <1>1, <1>3, <1>6, OnlyCall
  <2>2. call[c].doomed = Images(o, {K(c)}) /\ K(c) \in Kinds
    BY <1>1, <1>3, <2>1 DEF Takes, At, Typed, CallsOK, CallOK, K
  <2>3. \A g \in Left(o)' : g \in Left(o) /\ g # call[c].file
    BY <1>1, <1>4, <2>1 DEF Left
  <2>4. \A g \in call[c].doomed : IsImage(o, g)
    BY <2>2 DEF Images, IsImage
  <2> QED BY <1>1, <2>1, <2>3, <2>4, SameAccount DEF Has
<1>7. Takes(c)'
  BY <1>2 DEF Takes
<1> QED BY <1>3, <1>5, <1>6, <1>7, LocalIsClean

LEMMA LookIsClean ==
    ASSUME Typed, CleanInvariant, Typed', NEW c \in Calls, LookBeforeClearing(c)
    PROVE  CleanInvariant'
<1>1. /\ SameImages /\ Kept /\ disturbed' = disturbed /\ At(c, "clear")
      /\ \/ Becomes(c, "null", O(c), K(c), NoFile, call[c].doomed)
         \/ /\ Becomes(c, "remove", O(c), K(c), NoFile, call[c].doomed)
            /\ \A k \in Kinds : k # K(c) => Image(O(c), k) = NoFile
         \/ Dropped(c, call[c].doomed)
  BY Looking
<1>2. /\ ~ At(c, "idle") /\ K(c) \in Kinds
      /\ \A d \in Calls : d # c => call'[d] = call[d]
      /\ call'[c].owner \in {O(c), NoOwner} /\ call'[c].doomed = call[c].doomed
      /\ \/ call'[c].pc \in {"idle", "drop"}
         \/ call'[c].pc = "null" /\ call'[c].kind = K(c)
         \/ /\ call'[c].pc = "remove" /\ call'[c].kind = K(c)
            /\ \A k \in Kinds : k # K(c) => Image(O(c), k) = NoFile
  BY <1>1 DEF At, Typed, CallsOK, CallOK, Dropped, Becomes, K
<1>3. PICK o \in Owners : o = O(c)
  BY <1>2, OwnerTyped DEF Typed
<1>4. Local(c, o) /\ Left(o)' = Left(o)
  BY <1>1, <1>2, <1>3 DEF Local, Kept, SameImages, Left
<1>5. ASSUME o \notin disturbed' PROVE Takes(c) /\ AccountedBy(o, c)
  BY <1>1, <1>3, <1>5, OnlyCall
<1>6. ASSUME o \notin disturbed', call'[c].owner = o PROVE Takes(c)'
  <2>1. call[c].doomed = Images(o, {K(c)})
    BY <1>1, <1>3, <1>5, <1>6 DEF Takes, At
  <2>2. O(c)' = o /\ \A k \in Kinds : Image(o, k)' = Image(o, k)
    BY <1>1, <1>6 DEF O, SameImages, Image
  <2>3. CASE call'[c].pc = "null" /\ call'[c].kind = K(c)
    <3>1. Images(O(c), {K(c)})' = Images(o, {K(c)})
      BY <1>2, <2>2, <2>3 DEF Images, K
    <3> QED BY <1>2, <2>1, <2>3, <3>1 DEF Takes
  <2>4. CASE /\ call'[c].pc = "remove" /\ call'[c].kind = K(c)
             /\ \A k \in Kinds : k # K(c) => Image(O(c), k) = NoFile
    <3>1. Images(O(c), Kinds)' = Images(o, {K(c)})
      BY <1>2, <1>3, <2>2, <2>4 DEF Images
    <3>2. \A k \in Kinds : k # K(c)' => Image(O(c), k)' = NoFile
      BY <1>3, <2>2, <2>4 DEF K
    <3> QED BY <1>2, <2>1, <2>4, <3>1, <3>2 DEF Takes
  <2>5. CASE call'[c].pc \in {"idle", "drop"}
    BY <2>5 DEF Takes
  <2> QED BY <1>2, <2>3, <2>4, <2>5
<1>7. ASSUME o \notin disturbed' PROVE AccountedBy(o, c)'
  <2>1. call[c].file = NoFile
    BY <1>1 DEF At, Typed, CallsOK, CallOK
  <2>2. \A g \in Left(o) : Has(c, g) => Has(c, g)'
    BY <1>2, <2>1, BrandingAssumption DEF Has, Left
  <2> QED BY <1>1, <1>4, <1>5, <1>7, <2>2, SameAccount
<1> QED BY <1>3, <1>4, <1>6, <1>7, LocalIsClean

\* Removing one image or all of them.
LEMMA ClearIsClean ==
    ASSUME Typed, CleanInvariant, Typed', NEW c \in Calls, SetNull(c) \/ RemoveRow(c) \/ Reset(c)
    PROVE  CleanInvariant'
<1>1. /\ Kept /\ disturbed' = disturbed /\ Dropped(c, call[c].doomed)
      /\ \/ At(c, "null") /\ OneImageSet(O(c), K(c), NoFile)
         \/ (At(c, "remove") \/ At(c, "reset")) /\ ImagesGone(O(c))
  BY SettingNull, ClearingRow
<1>2. /\ ~ At(c, "idle") /\ call[c].file = NoFile
      /\ \A d \in Calls : d # c => call'[d] = call[d]
      /\ call'[c].owner \in {O(c), NoOwner} /\ call'[c].pc \in {"idle", "drop"}
  BY <1>1 DEF At, Typed, CallsOK, CallOK, Dropped, Becomes
<1>3. PICK o \in Owners : o = O(c)
  BY <1>2, OwnerTyped DEF Typed
<1>4. Local(c, o) /\ Left(o)' = Left(o)
  BY <1>1, <1>2, <1>3 DEF Local, Kept, OneImageSet, ImagesGone, Left
<1>5. Takes(c)'
  BY <1>2 DEF Takes
<1>6. ASSUME o \notin disturbed' PROVE AccountedBy(o, c)'
  <2>1. Takes(c) /\ AccountedBy(o, c)
    BY <1>1, <1>3, <1>6, OnlyCall
  <2>2. \A g \in Left(o) : g # NoFile
    BY BrandingAssumption DEF Left
  <2>3. \A g \in Left(o) : IsImage(o, g) => IsImage(o, g)' \/ g \in call[c].doomed
    <3>1. CASE At(c, "null") /\ OneImageSet(O(c), K(c), NoFile)
      <4>1. call[c].doomed = Images(o, {K(c)})
        BY <1>3, <2>1, <3>1 DEF Takes, At
      <4> QED BY <1>3, <2>2, <3>1, <4>1 DEF OneImageSet, IsImage, Image, Images
    <3>2. CASE At(c, "remove") \/ At(c, "reset")
      <4>1. call[c].doomed = Images(o, Kinds)
        BY <1>3, <2>1, <3>2 DEF Takes, At
      <4> QED BY <2>2, <4>1 DEF IsImage, Images
    <3> QED BY <1>1, <3>1, <3>2
  <2> QED BY <1>1, <1>2, <1>4, <2>1, <2>3, DroppedAccount
<1> QED BY <1>3, <1>4, <1>5, <1>6, LocalIsClean

LEMMA UpdateIsClean ==
    ASSUME Typed, CleanInvariant, Typed', NEW c \in Calls, Update(c)
    PROVE  CleanInvariant'
<1>1. /\ SameImages /\ Kept /\ disturbed' = disturbed /\ call[c].pc \in {"paint", "unpaint"}
      /\ Becomes(c, "idle", NoOwner, NoKind, NoFile, {})
  BY Updating
<1>2. /\ ~ At(c, "idle") /\ call[c].file = NoFile /\ call[c].doomed = {}
      /\ \A d \in Calls : d # c => call'[d] = call[d]
      /\ call'[c].owner = NoOwner /\ call'[c].pc = "idle"
  BY <1>1 DEF At, Typed, CallsOK, CallOK, Becomes
<1>3. PICK o \in Owners : o = O(c)
  BY <1>2, OwnerTyped DEF Typed
<1>4. Local(c, o) /\ Left(o)' = Left(o)
  BY <1>1, <1>2, <1>3 DEF Local, Kept, SameImages, Left
<1>5. ASSUME o \notin disturbed' PROVE AccountedBy(o, c)'
  <2>1. AccountedBy(o, c)
    BY <1>1, <1>3, <1>5, OnlyCall
  <2>2. \A g \in Left(o) : ~ Has(c, g)
    BY <1>2, BrandingAssumption DEF Has, Left
  <2> QED BY <1>1, <1>4, <2>1, <2>2, SameAccount
<1>6. Takes(c)'
  BY <1>2 DEF Takes
<1> QED BY <1>3, <1>4, <1>5, <1>6, LocalIsClean

LEMMA RemoveTenantIsClean ==
    ASSUME Typed, StoredInvariant, CleanInvariant, Typed', NEW c \in Calls, RemoveTenant(c)
    PROVE  CleanInvariant'
<1>1. /\ At(c, "tenant") /\ UNCHANGED << bytes, owner, failed, disturbed >>
      /\ rows' = {f \in rows : owner[f] # O(c)}
      /\ ImagesGone(O(c)) /\ Dropped(c, call[c].doomed)
  BY RemovingTenant
<1>2. /\ ~ At(c, "idle") /\ call[c].file = NoFile
      /\ \A d \in Calls : d # c => call'[d] = call[d]
      /\ call'[c].owner \in {O(c), NoOwner} /\ call'[c].pc \in {"idle", "drop"}
  BY <1>1 DEF At, Typed, CallsOK, CallOK, Dropped, Becomes
<1>3. PICK o \in Owners : o = O(c)
  BY <1>2, OwnerTyped DEF Typed
<1>4. Local(c, o) /\ Left(o)' \subseteq Left(o)
  BY <1>1, <1>2, <1>3 DEF Local, ImagesGone, Left
<1>5. Takes(c)'
  BY <1>2 DEF Takes
<1>6. ASSUME o \notin disturbed' PROVE AccountedBy(o, c)'
  <2>1. Takes(c) /\ AccountedBy(o, c)
    BY <1>1, <1>3, <1>6, OnlyCall
  <2>2. call[c].doomed = {f \in rows : owner[f] = o}
    BY <1>1, <1>3, <2>1 DEF Takes, At
  <2>3. \A g \in Left(o) : IsImage(o, g) => g \in rows
    BY BrandingAssumption DEF Left, IsImage, StoredInvariant, ReferencedIsStored
  <2>4. \A g \in Left(o)' : IsImage(o, g) => g \in call[c].doomed
    BY <1>4, <2>2, <2>3 DEF Left
  <2> QED BY <1>1, <1>2, <1>4, <2>1, <2>4, DroppedAccount
<1> QED BY <1>3, <1>4, <1>5, <1>6, LocalIsClean

LEMMA DropIsClean ==
    ASSUME Typed, StoredInvariant, CleanInvariant, Typed', NEW c \in Calls, Drop(c)
    PROVE  CleanInvariant' /\ SameImages
<1>1. At(c, "drop") /\ UNCHANGED << owners, owner, failed >>
  BY DroppingFile
<1>2. PICK f \in call[c].doomed :
         /\ \/ rows' = rows \ {f} /\ ImageDropped(f)
            \/ rows' = rows /\ SameImages
         /\ bytes' \in {bytes, bytes \ {f}}
         /\ disturbed' = IF f \in rows' \cup bytes' THEN disturbed \cup {O(c)} ELSE disturbed
         /\ Dropped(c, call[c].doomed \ {f})
  BY DroppingFile
<1>3. /\ ~ At(c, "idle") /\ call[c].file = NoFile /\ f \in Files
      /\ \A d \in Calls : d # c => call'[d] = call[d]
      /\ call'[c].owner \in {O(c), NoOwner} /\ call'[c].pc \in {"idle", "drop"}
      /\ call'[c].doomed = call[c].doomed \ {f}
  BY <1>1, <1>2 DEF At, Typed, CallsOK, CallOK, CallRow, Dropped, Becomes
<1>4. PICK o \in Owners : o = O(c)
  BY <1>3, OwnerTyped DEF Typed
<1>5. SameImages
  BY <1>1, <1>2 DEF StoredInvariant, DroppedIsNoImage, At, ImageDropped, SameImages
<1>6. owner[f] = o
  BY <1>4 DEF StoredInvariant, DoomedOwned
<1>7. Local(c, o)
  <2>1. disturbed \subseteq disturbed'
    BY <1>2
  <2>2. \A g \in Files : g # f => (g \in rows' <=> g \in rows) /\ (g \in bytes' <=> g \in bytes)
    BY <1>2
  <2> QED BY <1>1, <1>3, <1>4, <1>5, <1>6, <2>1, <2>2 DEF Local, SameImages
<1>8. Takes(c)'
  BY <1>3 DEF Takes
<1>9. ASSUME o \notin disturbed' PROVE AccountedBy(o, c)'
  <2>1. disturbed' = disturbed /\ f \notin rows' \cup bytes'
    BY <1>2, <1>4, <1>9
  <2>2. AccountedBy(o, c)
    BY <1>4, <1>9, <2>1, OnlyCall
  <2>3. \A g \in Left(o)' : g \in Left(o) /\ g # f /\ g # NoFile
    BY <1>1, <1>2, <2>1, BrandingAssumption DEF Left
  <2>4. \A g \in Left(o)' : Has(c, g) => Has(c, g)'
    BY <1>3, <2>3 DEF Has
  <2> QED BY <1>5, <2>2, <2>3, <2>4, SameAccount
<1> QED BY <1>4, <1>5, <1>7, <1>8, <1>9, LocalIsClean

LEMMA AbandonIsClean ==
    ASSUME Typed, CleanInvariant, Typed', NEW c \in Calls, Abandon(c)
    PROVE  CleanInvariant'
<1>1. /\ SameImages /\ Kept /\ ~ At(c, "idle") /\ disturbed' = disturbed \cup {O(c)}
      /\ Becomes(c, "idle", NoOwner, NoKind, NoFile, {})
  BY Abandoning
<1>2. PICK o \in Owners : o = O(c)
  BY <1>1, OwnerTyped DEF Typed
<1>3. Local(c, o)
  BY <1>1, <1>2 DEF Local, Kept, SameImages, Becomes
<1>4. o \in disturbed'
  BY <1>1, <1>2
<1> QED BY <1>2, <1>3, <1>4, LocalIsClean

LEMMA CleanStep == Typed /\ StoredInvariant /\ CleanInvariant /\ [Next]_vars => CleanInvariant'
<1> SUFFICES ASSUME Typed, StoredInvariant, CleanInvariant, [Next]_vars PROVE CleanInvariant'
  OBVIOUS
<1>1. Typed'
  BY TypedStep
<1>2. CASE UNCHANGED vars
  BY <1>2 DEF vars, CleanInvariant, Alone, TakesAlong, Takes, Accounted, Left, IsImage, Has,
     Images, Image, O, K
<1>3. ASSUME NEW c \in Calls, NEW o \in Owners, Start(c, o) PROVE CleanInvariant'
  BY <1>1, <1>3, Starting, StartIsClean
<1>4. ASSUME NEW c \in Calls, UploadStep(c) PROVE CleanInvariant'
  BY <1>1, <1>4, ReadIsClean, PutIsClean, CreateRowIsClean, SetImageIsClean,
     UploadFailsIsClean, UndoIsClean DEF UploadStep
<1>5. ASSUME NEW c \in Calls, RemovalStep(c) PROVE CleanInvariant'
  BY <1>1, <1>5, LookIsClean, ClearIsClean, UpdateIsClean, RemoveTenantIsClean, DropIsClean
  DEF RemovalStep
<1>6. ASSUME NEW c \in Calls, Abandon(c) PROVE CleanInvariant'
  BY <1>1, <1>6, AbandonIsClean
<1> QED BY <1>2, <1>3, <1>4, <1>5, <1>6 DEF Next

LEMMA CleanInit == Init => CleanInvariant
<1> SUFFICES ASSUME Init PROVE CleanInvariant
  OBVIOUS
<1>1. \A c \in Calls : O(c) = NoOwner
  BY IdleOK DEF Init, O
<1>2. \A o \in Owners : Left(o) = {}
  BY DEF Init, Left
<1> QED BY <1>1, <1>2, BrandingAssumption DEF CleanInvariant, Alone, TakesAlong, Accounted

\* Once the requests for an owner are over, each of his files is an image, unless they
\* overlapped, died, lost an answer or could not delete a file.
THEOREM FilesDoNotLeak == Spec => []NothingLeaks
<1>1. CleanInvariant => NothingLeaks
  BY DEF CleanInvariant, Accounted, NothingLeaks, Left, IsImage
<1> QED BY <1>1, TypedInit, TypedStep, StoredInit, StoredStep, CleanInit, CleanStep, PTL DEF Spec

\* A step changes an image only for a request about this image, about all images of its
\* owner or about the owner, as long as his requests do not overlap.
OwnImageStep ==
    \A o \in Owners \ disturbed, k \in Kinds :
        Image(o, k) # branding'[o].image[k] =>
            \E c \in Calls : /\ O(c) = o /\ call'[c] # call[c]
                             /\ K(c) = k \/ call[c].pc \in {"reset", "tenant"}

LEMMA StepsOnOwnImages ==
    Typed /\ StoredInvariant /\ CleanInvariant /\ [Next]_vars => OwnImageStep
<1> SUFFICES ASSUME Typed, StoredInvariant, CleanInvariant, [Next]_vars,
                    NEW o \in Owners, o \notin disturbed, NEW k \in Kinds,
                    Image(o, k) # branding'[o].image[k]
             PROVE  \E c \in Calls : /\ O(c) = o /\ call'[c] # call[c]
                                     /\ K(c) = k \/ call[c].pc \in {"reset", "tenant"}
  BY DEF OwnImageStep
<1>1. ~ SameImages
  BY DEF SameImages
<1>2. ~ UNCHANGED vars
  BY <1>1 DEF vars, SameImages, Image
<1>3. ASSUME NEW c \in Calls, NEW p \in Owners, Start(c, p) PROVE FALSE
  BY <1>1, <1>3, Starting DEF Started
<1>4. PICK c \in Calls : \/ SetImage(c) \/ UploadFails(c) \/ SetNull(c)
                         \/ RemoveRow(c) \/ Reset(c) \/ RemoveTenant(c)
  BY <1>1, <1>2, <1>3, Reading, Putting, CreatingRow, Undoing, Looking, Updating, DropIsClean,
     TypedStep, Abandoning DEF Next, UploadStep, RemovalStep
<1>5. CASE SetImage(c)
  <2>1. /\ At(c, "attach") /\ OneImageSet(O(c), K(c), call[c].file)
        /\ Dropped(c, call[c].doomed)
    BY <1>5, SettingReference
  <2>2. o = O(c) /\ k = K(c)
    BY <2>1 DEF OneImageSet
  <2>3. call'[c] # call[c]
    BY <2>1 DEF Dropped, Becomes, At
  <2> QED BY <2>2, <2>3
<1>6. CASE UploadFails(c)
  <2>1. /\ New(c) /\ Becomes(c, "undo", O(c), K(c), call[c].file, call[c].doomed)
        /\ OneImageSet(O(c), K(c), call[c].file)
    BY <1>1, <1>6, UploadFailing
  <2>2. o = O(c) /\ k = K(c)
    BY <2>1 DEF OneImageSet
  <2>3. call'[c] # call[c]
    BY <2>1 DEF Becomes, New
  <2> QED BY <2>2, <2>3
<1>7. CASE SetNull(c)
  <2>1. At(c, "null") /\ OneImageSet(O(c), K(c), NoFile) /\ Dropped(c, call[c].doomed)
    BY <1>7, SettingNull
  <2>2. o = O(c) /\ k = K(c)
    BY <2>1 DEF OneImageSet
  <2>3. call'[c] # call[c]
    BY <2>1 DEF Dropped, Becomes, At
  <2> QED BY <2>2, <2>3
<1>8. CASE RemoveRow(c) \/ Reset(c)
  <2>1. /\ At(c, "remove") \/ At(c, "reset")
        /\ ImagesGone(O(c)) /\ Dropped(c, call[c].doomed)
    BY <1>8, ClearingRow
  <2>2. o = O(c) /\ Image(o, k) # NoFile
    BY <2>1 DEF ImagesGone
  <2>3. call'[c] # call[c]
    BY <2>1 DEF Dropped, Becomes, At
  <2>4. At(c, "remove") => k = K(c)
    BY <2>2 DEF CleanInvariant, TakesAlong, Takes, At
  <2> QED BY <2>1, <2>2, <2>3, <2>4 DEF At
<1>9. CASE RemoveTenant(c)
  <2>1. At(c, "tenant") /\ ImagesGone(O(c)) /\ Dropped(c, call[c].doomed)
    BY <1>9, RemovingTenant
  <2>2. o = O(c)
    BY <2>1 DEF ImagesGone
  <2>3. call'[c] # call[c]
    BY <2>1 DEF Dropped, Becomes, At
  <2> QED BY <2>1, <2>2, <2>3 DEF At
<1> QED BY <1>4, <1>5, <1>6, <1>7, <1>8, <1>9

\* Neither colours nor another image cost an image.
THEOREM ImagesAreChangedAlone == Spec => OnlyOwnImage
<1>1. Typed /\ StoredInvariant /\ CleanInvariant /\ [Next]_vars =>
          [\A o \in Owners \ disturbed, k \in Kinds :
              Image(o, k) # branding'[o].image[k] =>
                 \E c \in Calls : /\ O(c) = o /\ call'[c] # call[c]
                                  /\ K(c) = k \/ call[c].pc \in {"reset", "tenant"}]_vars
  BY StepsOnOwnImages DEF OwnImageStep
<1> QED BY <1>1, TypedInit, TypedStep, StoredInit, StoredStep, CleanInit, CleanStep, PTL
        DEF Spec, OnlyOwnImage

=============================================================================
