----------------------------- MODULE TenantLogo ------------------------------
(***************************************************************************)
(* The logo of a tenant: bytes in the object store, a row of               *)
(* storage_objects and the reference tenants.logo_object_id, written one   *)
(* after the other.  The statements run under the context of the request:  *)
(* when it is cancelled or the connection is lost, an error does not mean  *)
(* that the statement was not, or will not be, applied.                    *)
(*   internal/httpserver/branding_logo.go   putTenantLogo,                 *)
(*       deleteTenantLogo, getBrandingLogo                                 *)
(*   internal/storage/upload.go             Upload                         *)
(***************************************************************************)
EXTENDS Naturals, FiniteSets

CONSTANTS
    Object,    \* objects that can be uploaded
    Editor,    \* requests in flight at once
    NoObject

ASSUME LogoAssumption == NoObject \notin Object

VARIABLES
    blobs,     \* keys the store holds
    rows,      \* rows of storage_objects
    retired,   \* deleted_at IS NOT NULL
    logo,      \* tenants.logo_object_id
    edit,      \* the request each editor serves
    indoubt,   \* objects whose reference was reported as not written and may still be
    unsure,    \* history: those whose reference was written all the same
    disturbed  \* history: a request failed, or two overlapped

doubts == <<indoubt, unsure>>
lvars == <<blobs, rows, retired, logo, edit, doubts, disturbed>>

(***************************************************************************)
(* pc: "put" the bytes are stored; "recorded" the row is inserted;         *)
(* "fetched" the previous logo is known; "undo" the UPDATE of the          *)
(* reference returned an error; "clearing" deleteTenantLogo knows the      *)
(* logo; "retiring" the reference is written, the previous row is still    *)
(* live; "dropping" it is not, its bytes are still stored.                 *)
(***************************************************************************)
Edit == [pc : {"idle", "put", "recorded", "fetched", "undo", "clearing", "retiring",
               "dropping"},
         new : Object \cup {NoObject}, prev : Object \cup {NoObject}]

NoEdit == [pc |-> "idle", new |-> NoObject, prev |-> NoObject]

Editing(where, new, prev) == [pc |-> where, new |-> new, prev |-> prev]

Goes(e, to) == edit' = [edit EXCEPT ![e] = to]

LInit ==
    /\ blobs = {} /\ rows = {} /\ retired = {}
    /\ logo = NoObject
    /\ edit = [e \in Editor |-> NoEdit]
    /\ indoubt = {} /\ unsure = {}
    /\ disturbed = FALSE

Overlaps(e) == \E f \in Editor \ {e} : edit[f].pc # "idle"

-----------------------------------------------------------------------------
(* Upload: the bytes are stored under a fresh key.                         *)
Put(e, o) ==
    /\ edit[e].pc = "idle"
    /\ o \notin blobs \cup rows
    /\ blobs' = blobs \cup {o}
    /\ Goes(e, Editing("put", o, NoObject))
    /\ disturbed' = (disturbed \/ Overlaps(e))
    /\ UNCHANGED <<rows, retired, logo, doubts>>

(* Upload: the row is inserted.                                            *)
Record(e) ==
    /\ edit[e].pc = "put"
    /\ rows' = rows \cup {edit[e].new}
    /\ Goes(e, [edit[e] EXCEPT !.pc = "recorded"])
    /\ UNCHANGED <<blobs, retired, logo, doubts, disturbed>>

(* Upload cannot insert the row, or fetchTenantLogo fails: the bytes are   *)
(* deleted, a row stays.                                                   *)
DropUpload(e) ==
    /\ edit[e].pc \in {"put", "recorded"}
    /\ blobs' = blobs \ {edit[e].new}
    /\ Goes(e, NoEdit)
    /\ disturbed' = TRUE
    /\ UNCHANGED <<rows, retired, logo, doubts>>

(* putTenantLogo: fetchTenantLogo.                                         *)
FetchPrevious(e) ==
    /\ edit[e].pc = "recorded"
    /\ Goes(e, Editing("fetched", edit[e].new, logo))
    /\ UNCHANGED <<blobs, rows, retired, logo, doubts, disturbed>>

(* Fault: the previous row is not retired.                                 *)
After_Kept(prev) == NoEdit

(* What is left to do once the reference is written.                       *)
After(prev) == IF prev = NoObject THEN NoEdit ELSE Editing("retiring", NoObject, prev)

(* putTenantLogo: the reference is written.                                *)
SetLogo(e) ==
    /\ edit[e].pc = "fetched"
    /\ logo' = edit[e].new
    /\ Goes(e, After(edit[e].prev))
    /\ UNCHANGED <<blobs, rows, retired, doubts, disturbed>>

(* That UPDATE returns an error, which leaves open whether the reference   *)
(* is written: the new bytes are deleted if the store can, then the row is *)
(* retired.                                                                *)
SetLogoFails(e) ==
    /\ edit[e].pc = "fetched"
    /\ blobs' \in {blobs, blobs \ {edit[e].new}}
    /\ indoubt' = indoubt \cup {edit[e].new}
    /\ Goes(e, Editing("undo", edit[e].new, NoObject))
    /\ disturbed' = TRUE
    /\ UNCHANGED <<rows, retired, logo, unsure>>

(* The database applied it, or applies it late, after requests that began  *)
(* when the caller had its error.                                          *)
ApplyInDoubt(o) ==
    /\ o \in indoubt
    /\ logo' = o
    /\ indoubt' = indoubt \ {o}
    /\ unsure' = unsure \cup {o}
    /\ UNCHANGED <<blobs, rows, retired, edit, disturbed>>

UndoRow(e) ==
    /\ edit[e].pc = "undo"
    /\ retired' = retired \cup {edit[e].new}
    /\ Goes(e, NoEdit)
    /\ UNCHANGED <<blobs, rows, logo, doubts, disturbed>>

(* Fault: the previous row is retired before the reference is cleared.     *)
BeginDelete_Early(e) ==
    /\ edit[e].pc = "idle"
    /\ logo # NoObject
    /\ retired' = retired \cup {logo}
    /\ Goes(e, Editing("clearing", NoObject, logo))
    /\ disturbed' = (disturbed \/ Overlaps(e))
    /\ UNCHANGED <<blobs, rows, logo, doubts>>

(* deleteTenantLogo: fetchTenantLogo finds a logo.                         *)
BeginDelete(e) ==
    /\ edit[e].pc = "idle"
    /\ logo # NoObject
    /\ Goes(e, Editing("clearing", NoObject, logo))
    /\ disturbed' = (disturbed \/ Overlaps(e))
    /\ UNCHANGED <<blobs, rows, retired, logo, doubts>>

(* deleteTenantLogo: the reference is cleared, whatever it is by now.      *)
ClearLogo(e) ==
    /\ edit[e].pc = "clearing"
    /\ logo' = NoObject
    /\ Goes(e, After(edit[e].prev))
    /\ UNCHANGED <<blobs, rows, retired, doubts, disturbed>>

RetireRow(e) ==
    /\ edit[e].pc = "retiring"
    /\ retired' = retired \cup {edit[e].prev}
    /\ Goes(e, [edit[e] EXCEPT !.pc = "dropping"])
    /\ UNCHANGED <<blobs, rows, logo, doubts, disturbed>>

(* An error of that UPDATE is dropped: the bytes go although the row stays.*)
RetireRowFails(e) ==
    /\ edit[e].pc = "retiring"
    /\ Goes(e, [edit[e] EXCEPT !.pc = "dropping"])
    /\ disturbed' = TRUE
    /\ UNCHANGED <<blobs, rows, retired, logo, doubts>>

(* The storage backend is the one the object was stored in; while it stays *)
(* configured as it is, the comparison prevBackend == s.StorageBackend     *)
(* holds.                                                                  *)
DropBlob(e) ==
    /\ edit[e].pc = "dropping"
    /\ blobs' = blobs \ {edit[e].prev}
    /\ Goes(e, NoEdit)
    /\ UNCHANGED <<rows, retired, logo, doubts, disturbed>>

(* The server dies, or a last deletion from the store fails.               *)
AbortEdit(e) ==
    /\ edit[e].pc # "idle"
    /\ Goes(e, NoEdit)
    /\ disturbed' = TRUE
    /\ UNCHANGED <<blobs, rows, retired, logo, doubts>>

LNext ==
    \/ \E e \in Editor :
          \/ \E o \in Object : Put(e, o)
          \/ Record(e) \/ DropUpload(e) \/ FetchPrevious(e) \/ SetLogo(e) \/ SetLogoFails(e)
          \/ UndoRow(e) \/ BeginDelete(e) \/ ClearLogo(e)
          \/ RetireRow(e) \/ RetireRowFails(e) \/ DropBlob(e) \/ AbortEdit(e)
    \/ \E o \in Object : ApplyInDoubt(o)

LSpec == LInit /\ [][LNext]_lvars

-----------------------------------------------------------------------------
(* What getBrandingLogo needs to answer: a row that is not retired, and    *)
(* its bytes.                                                              *)
Served(o) == o \in rows \ retired /\ o \in blobs

LogoTypeOK ==
    /\ blobs \subseteq Object /\ rows \subseteq Object /\ retired \subseteq rows
    /\ logo \in Object \cup {NoObject}
    /\ edit \in [Editor -> Edit]
    /\ indoubt \subseteq rows /\ unsure \subseteq rows
    /\ disturbed \in BOOLEAN

(* The reference points at an object that is retired or without its bytes  *)
(* only if the UPDATE that wrote it was reported as failed, so that the    *)
(* object was undone: no other failure, crash or overlap of uploads and    *)
(* deletions leads to one.                                                 *)
LogoServed == logo # NoObject /\ logo \notin unsure => Served(logo)

(* Requests that neither fail nor overlap leave nothing behind: the store  *)
(* and the live rows hold the current logo and no other object.            *)
NoOrphans ==
    ~disturbed /\ (\A e \in Editor : edit[e].pc = "idle") =>
        blobs = rows \ retired /\ blobs = {logo} \ {NoObject}

=============================================================================
