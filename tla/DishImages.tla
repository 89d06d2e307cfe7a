----------------------------- MODULE DishImages -----------------------------
(***************************************************************************)
(* A dish is a row of the database and, if it has an image, a file of the *)
(* storage service.  Adding, editing and deleting a dish change both, and *)
(* nothing makes the two changes one: a call that fails half-way rolls    *)
(* its transaction back and leaves the files as they are.                  *)
(*                                                                         *)
(* EditDish writes the row in its transaction and then looks up the image *)
(* to remove through another connection, which still sees the old one.    *)
(* The row lock of its UPDATE is what keeps two edits apart; DeleteDish   *)
(* removes the file before it touches the row.                             *)
(*                                                                         *)
(* Every call makes an image id of its own (a uuid), so the id of a call  *)
(* is also the id of the image it uploads.                                 *)
(***************************************************************************)
CONSTANTS
    Calls,      \* calls of AddDish, EditDish and DeleteDish
    Dishes      \* dish ids

ASSUME CallsAssumption == Calls \intersect {"none", "unborn", "gone"} = {}

VARIABLES
    op,         \* which operation a call is
    dish,       \* the dish it is about
    image,      \* the image it brings along: its own, or "none"
    step,       \* how far it has come
    old,        \* the image it found in the row
    row,        \* dish.image_id as committed; "unborn" before, "gone" after
    files       \* the images the storage service has

vars == <<op, dish, image, step, old, row, files>>
request == <<op, dish, image>>

Steps == {"new", "written", "read", "cleared", "stored", "done", "refused",
          "failed"}
InProgress == {"written", "read", "cleared", "stored"}

TypeOK ==
    /\ op \in [Calls -> {"add", "edit", "delete"}]
    /\ dish \in [Calls -> Dishes]
    /\ image \in [Calls -> Calls \union {"none"}]
    /\ \A c \in Calls : image[c] \in {c, "none"}
    /\ step \in [Calls -> Steps]
    /\ old \in [Calls -> Calls \union {"none"}]
    /\ row \in [Dishes -> Calls \union {"none", "unborn", "gone"}]
    /\ files \subseteq Calls

Init ==
    /\ op \in [Calls -> {"add", "edit", "delete"}]
    /\ dish \in [Calls -> Dishes]
    /\ image \in {f \in [Calls -> Calls \union {"none"}] :
                    \A c \in Calls : f[c] \in {c, "none"}}
    /\ step = [c \in Calls |-> "new"]
    /\ old = [c \in Calls |-> "none"]
    /\ row = [d \in Dishes |-> "unborn"]
    /\ files = {}

Goes(c, from, to) ==
    /\ step[c] = from
    /\ step' = [step EXCEPT ![c] = to]

\* The row lock of the UPDATE, held until the transaction ends.
Locked(d) ==
    /\ row[d] # "gone"
    /\ \E c \in Calls :
        op[c] = "edit" /\ dish[c] = d /\ step[c] \in InProgress

-----------------------------------------------------------------------------
\* A serial id: no two calls insert the same dish.
InsertDish(c) ==
    /\ op[c] = "add"
    /\ row[dish[c]] = "unborn"
    /\ \A x \in Calls \ {c} :
        op[x] = "add" /\ dish[x] = dish[c] => step[x] = "new"
    /\ Goes(c, "new", "written")
    /\ UNCHANGED <<request, old, row, files>>

\* The UPDATE of the edit waits for the row.  It is not an error that no row
\* matches.  Only dishes that were there once are edited.
UpdateRow(c) ==
    /\ op[c] = "edit"
    /\ row[dish[c]] # "unborn"
    /\ ~Locked(dish[c])
    /\ Goes(c, "new", "written")
    /\ UNCHANGED <<request, old, row, files>>

LooksUpImage(c) ==
    \/ op[c] = "edit" /\ step[c] = "written"
    \/ op[c] = "delete" /\ step[c] = "new" /\ row[dish[c]] # "unborn"

\* Mutant: the image of a deleted dish is looked up as if it were there.
BugReadGone(c) ==
    /\ LooksUpImage(c)
    /\ old' = [old EXCEPT ![c] = row[dish[c]]]
    /\ step' = [step EXCEPT ![c] = "read"]
    /\ UNCHANGED <<request, row, files>>

\* Mutant: the lookup goes through the transaction and finds the new image.
BugReadInTransaction(c) ==
    /\ LooksUpImage(c)
    /\ row[dish[c]] # "gone"
    /\ old' = [old EXCEPT ![c] = IF op[c] = "edit" THEN image[c]
                                                   ELSE row[dish[c]]]
    /\ step' = [step EXCEPT ![c] = "read"]
    /\ UNCHANGED <<request, row, files>>

ReadImage(c) ==
    /\ LooksUpImage(c)
    /\ row[dish[c]] # "gone"
    /\ old' = [old EXCEPT ![c] = row[dish[c]]]
    /\ step' = [step EXCEPT ![c] = "read"]
    /\ UNCHANGED <<request, row, files>>

DishNotFound(c) ==
    /\ LooksUpImage(c)
    /\ row[dish[c]] = "gone"
    /\ step' = [step EXCEPT ![c] = "refused"]
    /\ UNCHANGED <<request, old, row, files>>

\* That the storage service does not have the file is not an error.
DeleteFile(c) ==
    /\ Goes(c, "read", "cleared")
    /\ files' = files \ {old[c]}
    /\ UNCHANGED <<request, old, row>>

\* Mutant: the error of the upload is dropped.
BugUploadUnchecked(c) ==
    /\ op[c] # "delete"
    /\ Goes(c, IF op[c] = "add" THEN "written" ELSE "cleared", "stored")
    /\ files' \in {files, files \union ({image[c]} \ {"none"})}
    /\ UNCHANGED <<request, old, row>>

UploadFile(c) ==
    /\ op[c] # "delete"
    /\ Goes(c, IF op[c] = "add" THEN "written" ELSE "cleared", "stored")
    /\ files' = files \union ({image[c]} \ {"none"})
    /\ UNCHANGED <<request, old, row>>

\* The transaction of AddDish or EditDish commits.
CommitDish(c) ==
    /\ op[c] # "delete"
    /\ Goes(c, "stored", "done")
    /\ row' = [row EXCEPT ![dish[c]] = image[c]]
    /\ UNCHANGED <<request, old, files>>

DeleteDish(c) ==
    /\ op[c] = "delete"
    /\ ~Locked(dish[c])
    /\ Goes(c, "cleared", "done")
    /\ row' = [row EXCEPT ![dish[c]] = "gone"]
    /\ UNCHANGED <<request, old, files>>

\* The database, the storage service or the process fails, before or after
\* the step took effect; an open transaction rolls back.
Fail(c) ==
    /\ step[c] \in InProgress
    /\ step' = [step EXCEPT ![c] = "failed"]
    /\ UNCHANGED <<request, old, row, files>>

\* Deleting a restaurant takes the rows of its dishes along.
DeleteRestaurant(d) ==
    /\ row[d] \notin {"unborn", "gone"}
    /\ ~Locked(d)
    /\ row' = [row EXCEPT ![d] = "gone"]
    /\ UNCHANGED <<request, step, old, files>>

CallStep(c) ==
    \/ InsertDish(c) \/ UpdateRow(c) \/ ReadImage(c) \/ DishNotFound(c)
    \/ DeleteFile(c) \/ UploadFile(c) \/ CommitDish(c) \/ DeleteDish(c)
    \/ Fail(c)

Next ==
    \/ \E c \in Calls : CallStep(c)
    \/ \E d \in Dishes : DeleteRestaurant(d)

Spec == Init /\ [][Next]_vars

-----------------------------------------------------------------------------
(* Properties. *)

\* A dish that shows an image the storage service does not have is being
\* edited or deleted, or such a call failed after it removed the image
\* (service/dish.go:203-214, :223-228).  No interleaving alone does it.
MissingImageHasCause ==
    \A d \in Dishes : row[d] \in Calls \ files =>
        \E c \in Calls :
            /\ dish[c] = d
            /\ old[c] = row[d]
            /\ step[c] \in {"cleared", "stored", "failed"}

\* As long as a dish exists, every file stored for it is its image or was
\* left by the call that uploaded it, which is about to commit or failed: no
\* edit forgets the image of another (service/dish.go:236-260).
NothingLeaks ==
    \A i \in files :
        row[dish[i]] \notin {i, "gone"} => step[i] \in {"stored", "failed"}

\* A transaction that gives a dish an image commits only when the image is
\* stored, whatever failed before and whatever runs beside it: a repeated
\* edit repairs what a failed one broke.
CommittedImageStored ==
    [][\A d \in Dishes :
        row'[d] # row[d] /\ row'[d] \in Calls => row'[d] \in files']_vars
=============================================================================
