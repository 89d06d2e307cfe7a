-------------------------- MODULE DishImagesProofs --------------------------
(***************************************************************************)
(* For any number of calls on any number of dishes: what adding, editing  *)
(* and deleting them leaves of their images.                               *)
(***************************************************************************)
EXTENDS DishImages, TLAPS

Writers == {c \in Calls : op[c] \in {"add", "edit"}}

\* A stored file was uploaded by the call it is named after.
FilesAreUploads ==
    \A i \in files :
        i \in Writers /\ image[i] = i /\ step[i] \in {"stored", "done", "failed"}

\* The image in a row, and the image a call found in one, is the image of a
\* transaction on that dish that has committed.
ImagesAreCommitted ==
    /\ \A d \in Dishes : row[d] \in Calls =>
        dish[row[d]] = d /\ step[row[d]] = "done"
    /\ \A c \in Calls : old[c] \in Calls =>
        dish[old[c]] = dish[c] /\ step[old[c]] = "done"

\* A dish is inserted once, and only then edited or deleted.
InsertedOnce ==
    /\ \A c \in Calls : op[c] = "add" /\ step[c] \in InProgress =>
        row[dish[c]] = "unborn"
    /\ \A c, x \in Calls :
        /\ op[c] = "add" /\ op[x] = "add" /\ dish[c] = dish[x]
        /\ step[c] # "new" /\ step[x] # "new"
        => c = x
    /\ \A c \in Calls : op[c] # "add" /\ step[c] \in InProgress =>
        row[dish[c]] # "unborn"

\* The row lock keeps two edits of a dish apart.
EditsExclude ==
    \A c, x \in Calls :
        /\ op[c] = "edit" /\ op[x] = "edit" /\ dish[c] = dish[x]
        /\ step[c] \in InProgress /\ step[x] \in InProgress
        /\ row[dish[c]] # "gone"
        => c = x

\* Hence what an edit found in the row stays there until it commits, the file
\* it removed stays away, and the one it uploaded stays.
EditsKeepTheirView ==
    /\ \A c \in Calls : op[c] = "edit" /\ step[c] \in {"read", "cleared", "stored"}
        => row[dish[c]] = old[c]
    /\ \A c \in Calls : op[c] = "edit" /\ step[c] \in {"cleared", "stored"}
        => old[c] \notin files
    /\ \A c \in Calls : step[c] = "stored" => image[c] \in files \union {"none"}

IInv ==
    /\ TypeOK
    /\ FilesAreUploads
    /\ ImagesAreCommitted
    /\ InsertedOnce
    /\ EditsExclude
    /\ EditsKeepTheirView
    /\ MissingImageHasCause
    /\ NothingLeaks

-----------------------------------------------------------------------------
\* At first no dish and no file is there.
LEMMA InitIInv == Init => IInv
BY CallsAssumption
   DEF Init, IInv, TypeOK, FilesAreUploads, ImagesAreCommitted, InsertedOnce,
       EditsExclude, EditsKeepTheirView, MissingImageHasCause, NothingLeaks,
       Steps, InProgress, Writers

\* Every step of a call, and of a deleted restaurant, keeps the invariant.
LEMMA IInvStep ==
    ASSUME IInv, [Next]_vars
    PROVE  IInv'
<1> USE CallsAssumption DEF IInv, TypeOK, FilesAreUploads,
        ImagesAreCommitted, InsertedOnce, EditsExclude, EditsKeepTheirView,
        MissingImageHasCause, NothingLeaks, Steps, InProgress, Writers,
        request, Goes
<1>1. ASSUME NEW c \in Calls, CallStep(c) PROVE IInv'
  <2>1. CASE InsertDish(c)
    BY <2>1 DEF InsertDish
  <2>2. CASE UpdateRow(c)
    BY <2>2 DEF UpdateRow, Locked
  <2>3. CASE ReadImage(c)
    BY <2>3 DEF ReadImage, LooksUpImage
  <2>4. CASE DishNotFound(c)
    BY <2>4 DEF DishNotFound, LooksUpImage
  <2>5. CASE DeleteFile(c)
    BY <2>5 DEF DeleteFile
  <2>6. CASE UploadFile(c)
    BY <2>6 DEF UploadFile
  <2>7. CASE CommitDish(c)
    BY <2>7 DEF CommitDish
  <2>8. CASE DeleteDish(c)
    BY <2>8 DEF DeleteDish, Locked
  <2>9. CASE Fail(c)
    BY <2>9 DEF Fail
  <2> QED
    BY <1>1, <2>1, <2>2, <2>3, <2>4, <2>5, <2>6, <2>7, <2>8, <2>9 DEF CallStep
<1>2. ASSUME NEW d \in Dishes, DeleteRestaurant(d) PROVE IInv'
  BY <1>2 DEF DeleteRestaurant, Locked
<1>3. CASE UNCHANGED vars
  BY <1>3 DEF vars
<1> QED BY <1>1, <1>2, <1>3 DEF Next

\* The invariant the properties follow from.
THEOREM Invariance == Spec => []IInv
<1>1. IInv /\ [Next]_vars => IInv'
  BY IInvStep
<1> QED BY InitIInv, <1>1, PTL DEF Spec

\* Every variable keeps its type.
THEOREM TypeCorrect == Spec => []TypeOK
<1>1. IInv => TypeOK
  BY DEF IInv
<1> QED BY Invariance, <1>1, PTL

\* An image is missing only during, or after the failure of, a call that
\* removed it (service/dish.go:203, :223).
THEOREM MissingImagesHaveCauses == Spec => []MissingImageHasCause
<1>1. IInv => MissingImageHasCause
  BY DEF IInv
<1> QED BY Invariance, <1>1, PTL

\* Edits of a dish that exists forget no file, in any order and number
\* (service/dish.go:173-220).
THEOREM EditsLeakNothing == Spec => []NothingLeaks
<1>1. IInv => NothingLeaks
  BY DEF IInv
<1> QED BY Invariance, <1>1, PTL

\* No transaction commits an image that is not stored (service/dish.go:145-154,
\* :208-218).
THEOREM CommittedImagesAreStored == Spec => CommittedImageStored
<1> DEFINE A ==
    \A d \in Dishes :
        row'[d] # row[d] /\ row'[d] \in Calls => row'[d] \in files'
<1>1. ASSUME IInv, [Next]_vars PROVE [A]_vars
  <2> SUFFICES ASSUME NEW d \in Dishes, row'[d] # row[d], row'[d] \in Calls
               PROVE  row'[d] \in files'
    OBVIOUS
  <2>1. ASSUME NEW c \in Calls, CommitDish(c) PROVE row'[d] \in files'
    BY <1>1, <2>1, CallsAssumption
       DEF CommitDish, Goes, IInv, TypeOK, EditsKeepTheirView
  <2>2. ASSUME NEW c \in Calls, DeleteDish(c) PROVE FALSE
    BY <1>1, <2>2, CallsAssumption DEF DeleteDish, IInv, TypeOK
  <2>3. ASSUME NEW e \in Dishes, DeleteRestaurant(e) PROVE FALSE
    BY <1>1, <2>3, CallsAssumption DEF DeleteRestaurant, IInv, TypeOK
  <2> QED
    BY <1>1, <2>1, <2>2, <2>3
       DEF Next, CallStep, InsertDish, UpdateRow, ReadImage, DishNotFound,
           DeleteFile, UploadFile, Fail, vars
<1> QED BY Invariance, <1>1, PTL DEF Spec, CommittedImageStored
=============================================================================
