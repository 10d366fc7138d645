------------------------------- MODULE Branding -------------------------------
(***************************************************************************)
(* The images of the tenants' and the platform's branding: a row that      *)
(* refers to files, the rows of the files, and their bytes in the storage, *)
(* which no transaction covers.  Requests write and remove the three one   *)
(* after the other, on what they read before, while others do the same and *)
(* tenants are deleted.                                                    *)
(*                                                                         *)
(* Each step is one statement; consecutive reads are one step, and so are  *)
(* the removals of a file's row and bytes, on which nobody else decides.   *)
(***************************************************************************)
CONSTANTS
    Owners,     \* tenants, and the platform
    Platform,
    Kinds,      \* logo, icon, and the platform's favicon
    Files,      \* fresh ids, each with its storage key (bound: uploads)
    Calls,
    NoOwner, NoKind, NoFile

ASSUME BrandingAssumption ==
    /\ Platform \in Owners
    /\ NoOwner \notin Owners
    /\ NoKind \notin Kinds
    /\ NoFile \notin Files

VARIABLES
    owners,     \* those that exist
    branding,   \* rows of tenant_branding and platform_branding
    rows,       \* rows of files
    bytes,      \* files in the storage
    owner,      \* whose file each id is, part of its row and of its storage key
    call,       \* what each request is doing
    failed,     \* history: files whose upload was answered with an error
    disturbed   \* history: owners whose requests overlapped, died, lost an answer of the
                \* database or could not clean up

vars == << owners, branding, rows, bytes, owner, call, failed, disturbed >>

-----------------------------------------------------------------------------
(* Data *)

Row == [there: BOOLEAN, colours: BOOLEAN, image: [Kinds -> Files \cup {NoFile}]]
NoRow == [there |-> FALSE, colours |-> FALSE, image |-> [k \in Kinds |-> NoFile]]

Pcs == {"idle", "previous", "put", "row", "attach", "undo",
        "clear", "remove", "null", "reset", "paint", "unpaint", "tenant", "drop"}
CallRow == [pc: Pcs, owner: Owners \cup {NoOwner}, kind: Kinds \cup {NoKind},
            file: Files \cup {NoFile}, doomed: SUBSET Files, found: BOOLEAN]
Idle == [pc |-> "idle", owner |-> NoOwner, kind |-> NoKind, file |-> NoFile,
         doomed |-> {}, found |-> FALSE]

TypeOK ==
    /\ owners \subseteq Owners /\ Platform \in owners
    /\ branding \in [Owners -> Row]
    /\ rows \subseteq Files
    /\ bytes \subseteq Files
    /\ owner \in [Files -> Owners \cup {NoOwner}]
    /\ call \in [Calls -> CallRow]
    /\ failed \subseteq Files
    /\ disturbed \subseteq Owners
    /\ \A o \in Owners : ~ branding[o].there => branding[o] = NoRow
    /\ \A c \in Calls :
          /\ call[c].pc # "idle" => call[c].owner \in Owners
          /\ call[c].pc \in {"previous", "put", "row", "attach", "clear", "null"}
                => call[c].kind \in Kinds
          /\ call[c].pc \in {"row", "attach", "undo"} => call[c].file \in Files

Init ==
    /\ owners = Owners
    /\ branding = [o \in Owners |-> NoRow]
    /\ rows = {}
    /\ bytes = {}
    /\ owner = [f \in Files |-> NoOwner]
    /\ call = [c \in Calls |-> Idle]
    /\ failed = {}
    /\ disturbed = {}

-----------------------------------------------------------------------------
(* Helpers *)

At(c, pc) == call[c].pc = pc
O(c)      == call[c].owner
K(c)      == call[c].kind

Begin(c, row) ==
    /\ At(c, "idle")
    /\ row.owner \in owners
    /\ call' = [call EXCEPT ![c] = row]
    /\ disturbed' = IF \E d \in Calls : O(d) = row.owner THEN disturbed \cup {row.owner}
                                                        ELSE disturbed
Goto(c, pc) == call' = [call EXCEPT ![c].pc = pc]
Finish(c)   == call' = [call EXCEPT ![c] = Idle]

\* What is left of every request that replaced or removed something.
Drops(c, S) ==
    IF S = {} THEN Finish(c)
              ELSE call' = [call EXCEPT ![c] = [Idle EXCEPT !.pc = "drop", !.owner = O(c),
                                                            !.doomed = S]]

Image(o, k) == branding[o].image[k]
Images(o, S) == {Image(o, k) : k \in S} \ {NoFile}

\* shouldPersistTenantBranding, with k about to be cleared; the platform's row stays.
Persists(o, colours, k) == o = Platform \/ colours \/ Images(o, Kinds \ {k}) # {}

-----------------------------------------------------------------------------
(* Uploading an image: bytes, row, reference, then what it replaces *)

\* The previous image is read first; the platform's row is created if it is missing.
StartUpload(c, o, k) ==
    LET row == [Idle EXCEPT !.owner = o, !.kind = k] IN
    /\ IF o = Platform /\ ~ branding[o].there
         THEN /\ Begin(c, [row EXCEPT !.pc = "previous"])
              /\ branding' = [branding EXCEPT ![o].there = TRUE]
         ELSE /\ Begin(c, [row EXCEPT !.pc = "put", !.doomed = Images(o, {k})])
              /\ UNCHANGED branding
    /\ UNCHANGED << owners, rows, bytes, owner, failed >>

ReadPrevious(c) ==
    /\ At(c, "previous")
    /\ call' = [call EXCEPT ![c].pc = "put", ![c].doomed = Images(O(c), {K(c)})]
    /\ UNCHANGED << owners, branding, rows, bytes, owner, failed, disturbed >>

\* A failure of the storage may leave the bytes, like a death after this step.
Put(c) ==
    /\ At(c, "put")
    /\ \E f \in Files :
          /\ owner[f] = NoOwner
          /\ owner' = [owner EXCEPT ![f] = O(c)]
          /\ bytes' = bytes \cup {f}
          /\ call' = [call EXCEPT ![c].pc = "row", ![c].file = f]
    /\ UNCHANGED << owners, branding, rows, failed, disturbed >>

CreateRow(c) ==
    /\ At(c, "row")
    /\ O(c) \in owners
    /\ rows' = rows \cup {call[c].file}
    /\ Goto(c, "attach")
    /\ UNCHANGED << owners, branding, bytes, owner, failed, disturbed >>

Attached(c) == [branding EXCEPT ![O(c)].there = TRUE, ![O(c)].image[K(c)] = call[c].file]
Attaching(c) ==
    /\ At(c, "attach")
    /\ O(c) \in owners
    /\ O(c) = Platform => branding[O(c)].there
    /\ branding' = Attached(c)

\* Mutant: the cleanup of a failed upload runs after every upload.
SetImageFinally(c) ==
    /\ Attaching(c)
    /\ Goto(c, "undo")
    /\ UNCHANGED << owners, rows, bytes, owner, failed, disturbed >>

\* setLogo and its like, for a row that is there and for one that is not.
SetImage(c) ==
    /\ Attaching(c)
    /\ Drops(c, call[c].doomed)
    /\ UNCHANGED << owners, rows, bytes, owner, failed, disturbed >>

\* The statement rejects, because the owner or his row is gone, another request has just
\* created the row, or the database fails, which may be after the statement was carried out.
UploadFails(c) ==
    /\ \/ call[c].pc \in {"row", "attach"} /\ UNCHANGED << branding, disturbed >>
       \/ Attaching(c) /\ disturbed' = disturbed \cup {O(c)}
    /\ Goto(c, "undo")
    /\ failed' = failed \cup {call[c].file}
    /\ UNCHANGED << owners, rows, bytes, owner >>

\* Mutant: the bytes of a failed upload stay.
UndoNothing(c) ==
    /\ At(c, "undo")
    /\ Finish(c)
    /\ UNCHANGED << owners, branding, rows, bytes, owner, failed, disturbed >>

\* A file that cannot be deleted is left to a later cleanup.
Undo(c) ==
    /\ At(c, "undo")
    /\ \/ bytes' = bytes \ {call[c].file} /\ UNCHANGED disturbed
       \/ UNCHANGED bytes /\ disturbed' = disturbed \cup {O(c)}
    /\ Finish(c)
    /\ UNCHANGED << owners, branding, rows, owner, failed >>

-----------------------------------------------------------------------------
(* Removing an image, the whole branding, or colours *)

StartDelete(c, o, k) ==
    /\ Image(o, k) # NoFile
    /\ Begin(c, [Idle EXCEPT !.pc = "clear", !.owner = o, !.kind = k,
                             !.doomed = {Image(o, k)}])
    /\ UNCHANGED << owners, branding, rows, bytes, owner, failed >>

\* Mutant: the other images are not looked at.
LookAtColours(c) ==
    /\ At(c, "clear")
    /\ O(c) \in owners
    /\ IF branding[O(c)].there
         THEN Goto(c, IF O(c) = Platform \/ branding[O(c)].colours THEN "null" ELSE "remove")
         ELSE Drops(c, call[c].doomed)
    /\ UNCHANGED << owners, branding, rows, bytes, owner, failed, disturbed >>

\* clearLogo and its like: a row that would be left empty is to be removed.
LookBeforeClearing(c) ==
    /\ At(c, "clear")
    /\ O(c) \in owners
    /\ IF branding[O(c)].there
         THEN Goto(c, IF Persists(O(c), branding[O(c)].colours, K(c)) THEN "null" ELSE "remove")
         ELSE Drops(c, call[c].doomed)
    /\ UNCHANGED << owners, branding, rows, bytes, owner, failed, disturbed >>

\* Both writes fail if the row is gone by now.
SetNull(c) ==
    /\ At(c, "null")
    /\ branding[O(c)].there
    /\ branding' = [branding EXCEPT ![O(c)].image[K(c)] = NoFile]
    /\ Drops(c, call[c].doomed)
    /\ UNCHANGED << owners, rows, bytes, owner, failed, disturbed >>

\* Mutant: the images of a removed row stay.
RemoveRowOnly(c) ==
    /\ At(c, "remove")
    /\ branding[O(c)].there
    /\ branding' = [branding EXCEPT ![O(c)].there = FALSE, ![O(c)].colours = FALSE]
    /\ Drops(c, call[c].doomed)
    /\ UNCHANGED << owners, rows, bytes, owner, failed, disturbed >>

RemoveRow(c) ==
    /\ At(c, "remove")
    /\ branding[O(c)].there
    /\ branding' = [branding EXCEPT ![O(c)] = NoRow]
    /\ Drops(c, call[c].doomed)
    /\ UNCHANGED << owners, rows, bytes, owner, failed, disturbed >>

StartReset(c, o) ==
    /\ Begin(c, [Idle EXCEPT !.pc = "reset", !.owner = o, !.doomed = Images(o, Kinds)])
    /\ UNCHANGED << owners, branding, rows, bytes, owner, failed >>

Reset(c) ==
    /\ At(c, "reset")
    /\ O(c) \in owners
    /\ branding' = [branding EXCEPT ![O(c)] = NoRow]
    /\ Drops(c, call[c].doomed)
    /\ UNCHANGED << owners, rows, bytes, owner, failed, disturbed >>

\* upsert: what the row will be is decided on the row as it is read.
StartUpdate(c, o, colours) ==
    LET row == [Idle EXCEPT !.owner = o, !.found = branding[o].there] IN
    /\ IF Persists(o, colours, NoKind)
         THEN Begin(c, [row EXCEPT !.pc = IF colours THEN "paint" ELSE "unpaint"])
         ELSE branding[o].there /\ Begin(c, [row EXCEPT !.pc = "remove"])
    /\ UNCHANGED << owners, branding, rows, bytes, owner, failed >>

Update(c) ==
    /\ call[c].pc \in {"paint", "unpaint"}
    /\ O(c) \in owners
    /\ branding[O(c)].there = call[c].found
    /\ branding' = [branding EXCEPT ![O(c)].there = TRUE, ![O(c)].colours = At(c, "paint")]
    /\ Finish(c)
    /\ UNCHANGED << owners, rows, bytes, owner, failed, disturbed >>

-----------------------------------------------------------------------------
(* Deleting a tenant *)

StartRemoval(c, o) ==
    /\ o # Platform
    /\ Begin(c, [Idle EXCEPT !.pc = "tenant", !.owner = o,
                             !.doomed = {f \in rows : owner[f] = o}])
    /\ UNCHANGED << owners, branding, rows, bytes, owner, failed >>

\* The foreign keys take his branding and the rows of his files along.
RemoveTenant(c) ==
    /\ At(c, "tenant")
    /\ O(c) \in owners
    /\ owners' = owners \ {O(c)}
    /\ branding' = [branding EXCEPT ![O(c)] = NoRow]
    /\ rows' = {f \in rows : owner[f] # O(c)}
    /\ Drops(c, call[c].doomed)
    /\ UNCHANGED << bytes, owner, failed, disturbed >>

-----------------------------------------------------------------------------
(* Dropping files, and failures *)

\* ON DELETE SET NULL
Without(f) ==
    [o \in Owners |-> [branding[o] EXCEPT !.image =
        [k \in Kinds |-> IF Image(o, k) = f THEN NoFile ELSE Image(o, k)]]]

\* deleteById and bestEffortDelete, for one file after the other; both ignore failures.
Drop(c) ==
    \E f \in call[c].doomed :
       /\ At(c, "drop")
       /\ \/ rows' = rows \ {f} /\ branding' = Without(f)
          \/ UNCHANGED << rows, branding >>
       /\ bytes' \in {bytes, bytes \ {f}}
       /\ disturbed' = IF f \in rows' \cup bytes' THEN disturbed \cup {O(c)} ELSE disturbed
       /\ Drops(c, call[c].doomed \ {f})
       /\ UNCHANGED << owners, owner, failed >>

\* Any other statement rejects, or the process dies: what was written stays.
Abandon(c) ==
    /\ ~ At(c, "idle")
    /\ Finish(c)
    /\ disturbed' = disturbed \cup {O(c)}
    /\ UNCHANGED << owners, branding, rows, bytes, owner, failed >>

-----------------------------------------------------------------------------

UploadStep(c) ==
    \/ ReadPrevious(c) \/ Put(c) \/ CreateRow(c) \/ SetImage(c) \/ UploadFails(c) \/ Undo(c)

RemovalStep(c) ==
    \/ LookBeforeClearing(c) \/ SetNull(c) \/ RemoveRow(c) \/ Reset(c) \/ Update(c)
    \/ RemoveTenant(c) \/ Drop(c)

Start(c, o) ==
    \/ \E k \in Kinds : StartUpload(c, o, k) \/ StartDelete(c, o, k)
    \/ \E colours \in BOOLEAN : StartUpdate(c, o, colours)
    \/ StartReset(c, o)
    \/ StartRemoval(c, o)

Next ==
    \E c \in Calls :
       \/ \E o \in Owners : Start(c, o)
       \/ UploadStep(c) \/ RemovalStep(c) \/ Abandon(c)

Spec == Init /\ [][Next]_vars

-----------------------------------------------------------------------------
(* What the branding promises *)

\* An image that branding refers to can be delivered, however uploads, removals and
\* deletions overlap and fail: only files that are not referred to any more are dropped.
\* The exception is an upload whose reference was stored although its caller got an error.
ReferencedIsStored ==
    \A o \in Owners, k \in Kinds :
        Image(o, k) # NoFile => /\ Image(o, k) \in rows
                                /\ Image(o, k) \in bytes \cup failed

\* A request that is over leaves no file behind that nothing refers to; an upload that
\* failed leaves its row at most.  Owners whose requests overlapped, died, lost an answer
\* of the database or could not delete a file are left to the periodic cleanup (docs/14, 13.3).
NothingLeaks ==
    \A o \in Owners \ disturbed : (\A c \in Calls : O(c) # o) =>
        \A f \in Files : owner[f] = o /\ f \in bytes \cup (rows \ failed) =>
            \E k \in Kinds : Image(o, k) = f

\* An image is replaced or removed by requests for this image, for all of the owner's
\* branding or for the owner himself: what another image or the colours need removes no
\* image, unless the requests overlapped.
OnlyOwnImage ==
    [][\A o \in Owners \ disturbed, k \in Kinds :
          Image(o, k) # branding'[o].image[k] =>
             \E c \in Calls : /\ O(c) = o /\ call'[c] # call[c]
                              /\ K(c) = k \/ call[c].pc \in {"reset", "tenant"}]_vars
=============================================================================
