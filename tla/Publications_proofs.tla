------------------------ MODULE Publications_proofs ------------------------
(***************************************************************************)
(* Proofs about Publications, for any number of publications, people,      *)
(* photographs and requests at a time.                                     *)
(***************************************************************************)
EXTENDS Publications, FiniteSetTheorems, TLAPS

\* A request between reading and writing carries a form.  What it edits it
\* read in a state that may be edited, and what it creates is not there yet
\* and nobody else's.
RequestSound(s) ==
  pc[s] # "idle" =>
    /\ form[s] \in Form
    /\ pc[s] = "editing" => form[s].row.status \in Editable
    /\ pc[s] = "creating" <=> status[form[s].pub] = "none"
    /\ \A t \in Workers \ {s} :
         pc[s] = "creating" /\ pc[t] = "creating" => form[s].pub # form[t].pub

RequestsSound == \A s \in Workers : RequestSound(s)

\* Photographs belong to a publication that is there.
NoPhotosYet == \A p \in Publications : status[p] = "none" => photos[p] = {}

PInv ==
  /\ TypeOK
  /\ RequestsSound
  /\ NoPhotosYet
  /\ ApprovedWasDecided
  /\ DecidedOnce
  /\ PhotosSound

-----------------------------------------------------------------------------
\* The form of a request is one: Form's parts have their types.
LEMMA FormTyped ==
  ASSUME NEW f \in Form
  PROVE  /\ f.pub \in Publications
         /\ f.action \in {"save_draft", "submit"}
         /\ f.row.status \in Statuses \cup {"none"}
         /\ f.row.submittedOn \in Days \cup {None}
         /\ f.row.approvedAt \in BOOLEAN
         /\ f.remove \subseteq Photos
         /\ f.add \in Nat /\ f.add <= MaxPhotos
BY PublicationsAssumption DEF Form

\* What a citizen sends about a publication is such a form.
LEMMA SentIsForm ==
  ASSUME TypeOK, NEW p \in Publications, NEW f \in FormsFor(p)
  PROVE  f \in Form /\ f.pub = p
<1>1. RowOf(p) \in [status : Statuses \cup {"none"},
                    submittedOn : Days \cup {None}, approvedAt : BOOLEAN]
  BY DEF RowOf, TypeOK
<1>2. photos[p] \subseteq Photos
  BY DEF TypeOK
<1> QED
  BY <1>1, <1>2 DEF FormsFor, Form

\* A withdrawal carries a form that asks for nothing else.
LEMMA WithdrawalIsForm ==
  ASSUME TypeOK, NEW p \in Publications
  PROVE  [pub |-> p, action |-> "save_draft", row |-> RowOf(p),
          remove |-> {}, add |-> 0, main |-> None] \in Form
<1>1. RowOf(p) \in [status : Statuses \cup {"none"},
                    submittedOn : Days \cup {None}, approvedAt : BOOLEAN]
  BY DEF RowOf, TypeOK
<1>2. 0 \in 0 .. MaxPhotos
  BY PublicationsAssumption
<1> QED
  BY <1>1, <1>2 DEF Form

\* There is nothing at first.
LEMMA InitInv == Init => PInv
<1> SUFFICES ASSUME Init PROVE PInv
  OBVIOUS
<1> USE PublicationsAssumption DEF Init
<1>1. TypeOK
  BY DEF TypeOK, Days
<1>2. RequestsSound /\ NoPhotosYet
  BY DEF RequestsSound, RequestSound, NoPhotosYet
<1>3. ApprovedWasDecided /\ DecidedOnce
  BY DEF ApprovedWasDecided, DecidedOnce
<1>4. PhotosSound
  BY FS_EmptySet DEF PhotosSound
<1> QED
  BY <1>1, <1>2, <1>3, <1>4 DEF PInv

-----------------------------------------------------------------------------
(* The photographs.                                                        *)

\* At most the limit, counting those kept and those added
LEMMA KeptAndNewFit ==
  ASSUME NEW kept, kept \subseteq Photos, NEW new, new \subseteq Photos,
         NEW n \in Nat, Cardinality(new) = n, Cardinality(kept) + n <= MaxPhotos
  PROVE  Cardinality(kept \cup new) <= MaxPhotos
<1>1. IsFiniteSet(kept) /\ IsFiniteSet(new)
  BY FS_Subset, PublicationsAssumption
<1>2. IsFiniteSet(kept \cap new)
  BY <1>1, FS_Intersection
<1>3. /\ Cardinality(kept) \in Nat
      /\ Cardinality(kept \cap new) \in Nat
      /\ Cardinality(kept \cup new) \in Nat
  BY <1>1, <1>2, FS_Union, FS_CardinalityType
<1>4. Cardinality(kept \cup new)
        = Cardinality(kept) + n - Cardinality(kept \cap new)
  BY <1>1, FS_Union
<1> QED
  BY <1>3, <1>4, PublicationsAssumption

\* Whatever was chosen and removed, one photograph is first if there is any.
LEMMA OneIsChosen ==
  ASSUME NEW f, NEW kept, NEW new, NEW ph \in SUBSET (kept \cup new),
         ChoosesPrimary(f, kept, new, ph)
  PROVE  Cardinality(ph) = IF kept \cup new = {} THEN 0 ELSE 1
<1>1. CASE kept \cup new = {}
  BY <1>1, FS_EmptySet
<1>2. CASE kept \cup new # {}
  <2>1. \E x : ph = {x}
    BY <1>2 DEF ChoosesPrimary
  <2> QED
    BY <1>2, <2>1, FS_Singleton
<1> QED
  BY <1>1, <1>2

\* A transaction that writes photographs leaves them sound, if those kept and
\* those added fit, or none are added.
LEMMA AppliedIsSound ==
  ASSUME PInv, NEW f \in Form, ApplyPhotoChanges(f),
         f.add > 0 => Cardinality(photos[f.pub] \ f.remove) + f.add <= MaxPhotos
  PROVE  /\ PhotosSound'
         /\ photos' \in [Publications -> SUBSET Photos]
         /\ primary' \in [Publications -> SUBSET Photos]
         /\ issued' \subseteq Photos
         /\ \A p \in Publications \ {f.pub} : photos'[p] = photos[p]
<1> DEFINE kept == photos[f.pub] \ f.remove
<1>0. TypeOK /\ PhotosSound /\ f.pub \in Publications /\ f.add \in Nat
  BY FormTyped DEF PInv
<1>1. PICK new \in SUBSET (Photos \ issued) :
        /\ Cardinality(new) = f.add
        /\ photos' = [photos EXCEPT ![f.pub] = kept \cup new]
        /\ issued' = issued \cup new
        /\ \E ph \in SUBSET (kept \cup new) :
             /\ ChoosesPrimary(f, kept, new, ph)
             /\ primary' = [primary EXCEPT ![f.pub] = ph]
  BY DEF ApplyPhotoChanges
<1>2. PICK ph \in SUBSET (kept \cup new) :
        /\ ChoosesPrimary(f, kept, new, ph)
        /\ primary' = [primary EXCEPT ![f.pub] = ph]
  BY <1>1
<1>3. kept \subseteq Photos /\ new \subseteq Photos
  BY <1>0, <1>1 DEF TypeOK
<1>4. /\ photos' \in [Publications -> SUBSET Photos]
      /\ primary' \in [Publications -> SUBSET Photos]
      /\ issued' \subseteq Photos
      /\ \A p \in Publications \ {f.pub} :
           photos'[p] = photos[p] /\ primary'[p] = primary[p]
      /\ photos'[f.pub] = kept \cup new /\ primary'[f.pub] = ph
  BY <1>0, <1>1, <1>2, <1>3 DEF TypeOK
<1>5. Cardinality(ph) = IF kept \cup new = {} THEN 0 ELSE 1
  BY <1>2, OneIsChosen
<1>6. Cardinality(kept \cup new) <= MaxPhotos
  <2>1. CASE f.add > 0
    BY <1>0, <1>1, <1>3, <2>1, KeptAndNewFit
  <2>2. CASE f.add = 0
    <3>1. new = {}
      BY <1>1, <1>3, <2>2, FS_Subset, FS_EmptySet, PublicationsAssumption
    <3>2. IsFiniteSet(photos[f.pub])
      BY <1>0, FS_Subset, PublicationsAssumption DEF TypeOK
    <3>3. Cardinality(kept) <= Cardinality(photos[f.pub])
      BY <3>2, FS_Subset
    <3>4. Cardinality(kept) \in Nat /\ Cardinality(photos[f.pub]) \in Nat
      BY <3>2, FS_Subset, FS_CardinalityType
    <3>5. Cardinality(photos[f.pub]) <= MaxPhotos
      BY <1>0 DEF PhotosSound
    <3> HIDE DEF kept
    <3>6. kept \cup new = kept
      BY <3>1
    <3> QED
      BY <3>3, <3>4, <3>5, <3>6, PublicationsAssumption
  <2> QED
    BY <1>0, <2>1, <2>2
<1>7. PhotosSound'
  <2> HIDE DEF kept
  <2> SUFFICES ASSUME NEW p \in Publications
               PROVE  /\ primary'[p] \subseteq photos'[p]
                      /\ Cardinality(primary'[p])
                           = IF photos'[p] = {} THEN 0 ELSE 1
                      /\ Cardinality(photos'[p]) <= MaxPhotos
    BY DEF PhotosSound
  <2>1. CASE p = f.pub
    BY <1>2, <1>4, <1>5, <1>6, <2>1
  <2>2. CASE p # f.pub
    BY <1>0, <1>4, <2>2 DEF PhotosSound
  <2> QED
    BY <2>1, <2>2
<1> QED
  BY <1>4, <1>7

-----------------------------------------------------------------------------
(* The row and its decisions.                                              *)

\* What DecidedOnce says of one publication, by cases
LEMMA OneMore ==
  ASSUME NEW n \in Nat, NEW m \in Nat, NEW st
  PROVE  n + (IF st = "pending_review" THEN 1 ELSE 0) <= m
           <=> n <= m /\ (st = "pending_review" => n + 1 <= m)
<1>1. CASE st = "pending_review"
  BY <1>1
<1>2. CASE st # "pending_review"
  BY <1>2
<1> QED
  BY <1>1, <1>2

\* A citizen's write leaves the row typed, and in no state that only a decision
\* gives; what it submits is one submission more.
LEMMA WrittenIsDecided ==
  ASSUME PInv, NEW f \in Form, NEW st \in Editable, WriteRow(f, st),
         UNCHANGED decisions
  PROVE  /\ status' \in [Publications -> Statuses \cup {"none"}]
         /\ submittedOn' \in [Publications -> Days \cup {None}]
         /\ approvedAt' \in [Publications -> BOOLEAN]
         /\ submissions' \in [Publications -> Nat]
         /\ ApprovedWasDecided' /\ DecidedOnce'
         /\ status'[f.pub] # "none"
         /\ \A p \in Publications \ {f.pub} : status'[p] = status[p]
<1>0. /\ TypeOK /\ ApprovedWasDecided /\ DecidedOnce
      /\ f.pub \in Publications /\ f.action \in {"save_draft", "submit"}
      /\ f.row.submittedOn \in Days \cup {None}
      /\ f.row.approvedAt \in BOOLEAN
      /\ today \in Days
  BY FormTyped DEF PInv, TypeOK
<1>1. /\ status' \in [Publications -> Statuses \cup {"none"}]
      /\ status'[f.pub] \in {"draft", "changes_requested", "pending_review"}
      /\ status'[f.pub] = "pending_review" => f.action = "submit"
      /\ \A p \in Publications \ {f.pub} : status'[p] = status[p]
  BY <1>0 DEF WriteRow, TypeOK, Statuses, Editable
<1>2. submittedOn' \in [Publications -> Days \cup {None}]
  BY <1>0 DEF WriteRow, TypeOK
<1>3. approvedAt' \in [Publications -> BOOLEAN]
      /\ \A p \in Publications \ {f.pub} : approvedAt'[p] = approvedAt[p]
  BY <1>0 DEF WriteRow, TypeOK
<1>4. /\ submissions' \in [Publications -> Nat]
      /\ submissions'[f.pub] = IF f.action = "submit"
                               THEN submissions[f.pub] + 1
                               ELSE submissions[f.pub]
      /\ \A p \in Publications \ {f.pub} : submissions'[p] = submissions[p]
  BY <1>0 DEF WriteRow, TypeOK
<1>5. ApprovedWasDecided'
  BY <1>0, <1>1, <1>3 DEF ApprovedWasDecided
<1>6. DecidedOnce'
  <2> SUFFICES ASSUME NEW p \in Publications
               PROVE  Len(decisions[p])
                        + (IF status'[p] = "pending_review" THEN 1 ELSE 0)
                        <= submissions'[p]
    BY DEF DecidedOnce
  <2>1. Len(decisions[p]) \in Nat /\ submissions[p] \in Nat
    BY <1>0 DEF TypeOK
  <2>2. Len(decisions[p]) + (IF status[p] = "pending_review" THEN 1 ELSE 0)
          <= submissions[p]
    BY <1>0 DEF DecidedOnce
  <2>3. CASE p = f.pub
    <3>1. Len(decisions[p]) <= submissions[p]
      BY <2>1, <2>2, OneMore
    <3>2. CASE f.action = "submit"
      <4>1. submissions'[p] = submissions[p] + 1
        BY <1>4, <2>3, <3>2
      <4>2. /\ submissions'[p] \in Nat
            /\ Len(decisions[p]) <= submissions'[p]
            /\ Len(decisions[p]) + 1 <= submissions'[p]
        BY <2>1, <3>1, <4>1
      <4> QED
        BY <2>1, <4>2, OneMore
    <3>3. CASE f.action # "submit"
      <4>1. submissions'[p] = submissions[p] /\ status'[p] # "pending_review"
        BY <1>1, <1>4, <2>3, <3>3
      <4> QED
        BY <2>1, <3>1, <4>1, OneMore
    <3> QED
      BY <3>2, <3>3
  <2>4. CASE p # f.pub
    BY <1>1, <1>4, <2>2, <2>4
  <2> QED
    BY <2>3, <2>4
<1> QED
  BY <1>1, <1>2, <1>3, <1>4, <1>5, <1>6

\* What reads and does not write keeps the invariant, if the request it begins
\* or ends is sound.
LEMMA ReadingKeeps ==
  ASSUME PInv, UNCHANGED <<rowVars, photoVars, submissions, decisions, today>>,
         pc' \in [Workers -> {"idle", "creating", "editing", "withdrawing"}],
         form' \in [Workers -> Form \cup {None}], RequestsSound'
  PROVE  PInv'
<1> USE DEF rowVars, photoVars
<1>1. TypeOK'
  BY DEF PInv, TypeOK, Form
<1>2. NoPhotosYet' /\ ApprovedWasDecided' /\ DecidedOnce' /\ PhotosSound'
  BY DEF PInv, NoPhotosYet, ApprovedWasDecided, DecidedOnce, PhotosSound
<1> QED
  BY <1>1, <1>2 DEF PInv

\* A request begins with a form that is sound.
LEMMA BeginKeeps ==
  ASSUME PInv, NEW s \in Workers, NEW f \in Form,
         NEW step \in {"creating", "editing", "withdrawing"},
         Validated(s, step, f),
         step = "editing" => f.row.status \in Editable,
         step = "creating" <=> status[f.pub] = "none",
         step = "creating" =>
           \A t \in Workers : pc[t] = "creating" => form[t].pub # f.pub
  PROVE  PInv'
<1>0. TypeOK /\ RequestsSound
  BY DEF PInv
<1>1. /\ pc' \in [Workers -> {"idle", "creating", "editing", "withdrawing"}]
      /\ form' \in [Workers -> Form \cup {None}]
      /\ pc'[s] = step /\ form'[s] = f
      /\ \A t \in Workers \ {s} : pc'[t] = pc[t] /\ form'[t] = form[t]
      /\ UNCHANGED <<rowVars, photoVars, submissions, decisions, today>>
  BY <1>0 DEF Validated, TypeOK
<1>2. RequestsSound'
  <2> SUFFICES ASSUME NEW t \in Workers PROVE RequestSound(t)'
    BY DEF RequestsSound
  <2>1. RequestSound(t)
    BY <1>0 DEF RequestsSound
  <2>2. status' = status
    BY <1>1 DEF rowVars
  <2>3. CASE t = s
    BY <1>1, <2>2, <2>3 DEF RequestSound
  <2>4. CASE t # s
    BY <1>1, <2>1, <2>2, <2>4 DEF RequestSound
  <2> QED
    BY <2>3, <2>4
<1> QED
  BY <1>1, <1>2, ReadingKeeps

\* A request that ends leaves the others sound, if what it wrote made nothing
\* appear or disappear but what it had created.
LEMMA FinishSound ==
  ASSUME PInv, NEW s \in Workers, pc[s] # "idle", Finish(s),
         \A p \in Publications \ {form[s].pub} : status'[p] = status[p],
         (status'[form[s].pub] = "none") = (status[form[s].pub] = "none")
           \/ pc[s] = "creating"
  PROVE  /\ pc' \in [Workers -> {"idle", "creating", "editing", "withdrawing"}]
         /\ form' \in [Workers -> Form \cup {None}]
         /\ RequestsSound'
<1>0. TypeOK /\ RequestsSound
  BY DEF PInv
<1>1. /\ pc' \in [Workers -> {"idle", "creating", "editing", "withdrawing"}]
      /\ form' \in [Workers -> Form \cup {None}]
      /\ pc'[s] = "idle"
      /\ \A t \in Workers \ {s} : pc'[t] = pc[t] /\ form'[t] = form[t]
  BY <1>0 DEF Finish, TypeOK
<1>2. RequestsSound'
  <2> SUFFICES ASSUME NEW t \in Workers, pc'[t] # "idle"
               PROVE  RequestSound(t)'
    BY DEF RequestsSound, RequestSound
  <2>0. t # s
    BY <1>1
  <2>1. RequestSound(t) /\ RequestSound(s) /\ pc[t] # "idle"
    BY <1>0, <1>1, <2>0 DEF RequestsSound
  <2>2. form[t] \in Form /\ form[t].pub \in Publications
    BY <2>1, FormTyped DEF RequestSound
  <2>3. pc[t] = "creating" <=> status'[form[t].pub] = "none"
    <3>1. CASE form[t].pub # form[s].pub
      BY <2>1, <2>2, <3>1 DEF RequestSound
    <3>2. CASE form[t].pub = form[s].pub /\ pc[s] # "creating"
      BY <2>1, <3>2 DEF RequestSound
    <3>3. CASE form[t].pub = form[s].pub /\ pc[s] = "creating"
      BY <2>0, <2>1, <3>3 DEF RequestSound
    <3> QED
      BY <3>1, <3>2, <3>3
  <2> QED
    BY <1>1, <2>0, <2>1, <2>3 DEF RequestSound
<1> QED
  BY <1>1, <1>2

-----------------------------------------------------------------------------
(* The steps.                                                              *)

\* What is created has no photographs before, and at most those of the form
\* after.
LEMMA CreateKeeps ==
  ASSUME PInv, NEW s \in Workers, CreatePublication(s)
  PROVE  PInv'
<1> DEFINE f == form[s]
<1>1. /\ TypeOK /\ NoPhotosYet
      /\ pc[s] = "creating" /\ f \in Form /\ status[f.pub] = "none"
      /\ WriteRow(f, "draft") /\ ApplyPhotoChanges(f) /\ Finish(s)
      /\ UNCHANGED <<decisions, today>>
  BY DEF PInv, RequestsSound, RequestSound, CreatePublication
<1> HIDE DEF f
<1>2. f.add > 0 => Cardinality(photos[f.pub] \ f.remove) + f.add <= MaxPhotos
  <2>1. photos[f.pub] \ f.remove = {}
    BY <1>1, FormTyped DEF NoPhotosYet
  <2>2. Cardinality(photos[f.pub] \ f.remove) = 0
    BY <2>1, FS_EmptySet
  <2>3. f.add \in Nat /\ f.add <= MaxPhotos
    BY <1>1, FormTyped
  <2> QED
    BY <2>2, <2>3
<1>3. "draft" \in Editable
  BY DEF Editable
<1>4. /\ PhotosSound'
      /\ photos' \in [Publications -> SUBSET Photos]
      /\ primary' \in [Publications -> SUBSET Photos]
      /\ issued' \subseteq Photos
      /\ \A p \in Publications \ {f.pub} : photos'[p] = photos[p]
  BY <1>1, <1>2, AppliedIsSound
<1>5. /\ status' \in [Publications -> Statuses \cup {"none"}]
      /\ submittedOn' \in [Publications -> Days \cup {None}]
      /\ approvedAt' \in [Publications -> BOOLEAN]
      /\ submissions' \in [Publications -> Nat]
      /\ ApprovedWasDecided' /\ DecidedOnce'
      /\ status'[f.pub] # "none"
      /\ \A p \in Publications \ {f.pub} : status'[p] = status[p]
  BY <1>1, <1>3, WrittenIsDecided
<1>6. /\ pc' \in [Workers -> {"idle", "creating", "editing", "withdrawing"}]
      /\ form' \in [Workers -> Form \cup {None}]
      /\ RequestsSound'
  BY <1>1, <1>5, FinishSound DEF f
<1>7. TypeOK'
  BY <1>1, <1>4, <1>5, <1>6 DEF TypeOK, Form, Days
<1>8. NoPhotosYet'
  BY <1>1, <1>4, <1>5 DEF NoPhotosYet
<1> QED
  BY <1>4, <1>5, <1>6, <1>7, <1>8 DEF PInv

\* An edit writes the state it read, which no decision had given, and counts
\* the photographs again as it adds some.
LEMMA EditKeeps ==
  ASSUME PInv, NEW s \in Workers, EditPublication(s)
  PROVE  PInv'
<1> DEFINE f == form[s]
<1>1. /\ TypeOK /\ NoPhotosYet
      /\ pc[s] = "editing" /\ f \in Form /\ status[f.pub] # "none"
      /\ f.row.status \in Editable /\ PhotosFit(f)
      /\ WriteRow(f, f.row.status) /\ ApplyPhotoChanges(f) /\ Finish(s)
      /\ UNCHANGED <<decisions, today>>
  BY DEF PInv, RequestsSound, RequestSound, EditPublication
<1> HIDE DEF f
<1>2. f.add > 0 => Cardinality(photos[f.pub] \ f.remove) + f.add <= MaxPhotos
  BY <1>1 DEF PhotosFit
<1>4. /\ PhotosSound'
      /\ photos' \in [Publications -> SUBSET Photos]
      /\ primary' \in [Publications -> SUBSET Photos]
      /\ issued' \subseteq Photos
      /\ \A p \in Publications \ {f.pub} : photos'[p] = photos[p]
  BY <1>1, <1>2, AppliedIsSound
<1>5. /\ status' \in [Publications -> Statuses \cup {"none"}]
      /\ submittedOn' \in [Publications -> Days \cup {None}]
      /\ approvedAt' \in [Publications -> BOOLEAN]
      /\ submissions' \in [Publications -> Nat]
      /\ ApprovedWasDecided' /\ DecidedOnce'
      /\ status'[f.pub] # "none"
      /\ \A p \in Publications \ {f.pub} : status'[p] = status[p]
  BY <1>1, WrittenIsDecided
<1>6. /\ pc' \in [Workers -> {"idle", "creating", "editing", "withdrawing"}]
      /\ form' \in [Workers -> Form \cup {None}]
      /\ RequestsSound'
  BY <1>1, <1>5, FinishSound DEF f
<1>7. TypeOK'
  BY <1>1, <1>4, <1>5, <1>6 DEF TypeOK, Form, Days
<1>8. NoPhotosYet'
  BY <1>1, <1>4, <1>5 DEF NoPhotosYet
<1> QED
  BY <1>4, <1>5, <1>6, <1>7, <1>8 DEF PInv

\* Withdrawing takes the publication out of the queue, and out of approval.
LEMMA WithdrawKeeps ==
  ASSUME PInv, NEW s \in Workers, WithdrawPublication(s)
  PROVE  PInv'
<1> DEFINE p == form[s].pub
<1> USE DEF photoVars
<1>1. /\ TypeOK
      /\ p \in Publications /\ status[p] # "none" /\ pc[s] = "withdrawing"
      /\ status' = [status EXCEPT ![p] = "withdrawn"]
      /\ Finish(s)
      /\ UNCHANGED <<submittedOn, approvedAt, photoVars, submissions,
                     decisions, today>>
  BY FormTyped DEF PInv, RequestsSound, RequestSound, WithdrawPublication
<1> HIDE DEF p
<1>2. /\ status' \in [Publications -> Statuses \cup {"none"}]
      /\ status'[p] = "withdrawn"
      /\ \A q \in Publications \ {p} : status'[q] = status[q]
  BY <1>1 DEF TypeOK, Statuses
<1>3. /\ pc' \in [Workers -> {"idle", "creating", "editing", "withdrawing"}]
      /\ form' \in [Workers -> Form \cup {None}]
      /\ RequestsSound'
  BY <1>1, <1>2, FinishSound DEF p
<1>4. TypeOK'
  BY <1>1, <1>2, <1>3 DEF TypeOK, Form
<1>5. NoPhotosYet' /\ ApprovedWasDecided' /\ PhotosSound'
  BY <1>1, <1>2 DEF PInv, NoPhotosYet, ApprovedWasDecided, PhotosSound
<1>6. DecidedOnce'
  <2> SUFFICES ASSUME NEW q \in Publications
               PROVE  Len(decisions[q])
                        + (IF status'[q] = "pending_review" THEN 1 ELSE 0)
                        <= submissions[q]
    BY <1>1 DEF DecidedOnce
  <2>1. Len(decisions[q]) \in Nat /\ submissions[q] \in Nat
    BY <1>1 DEF TypeOK
  <2>2. Len(decisions[q]) + (IF status[q] = "pending_review" THEN 1 ELSE 0)
          <= submissions[q]
    BY DEF PInv, DecidedOnce
  <2>3. /\ Len(decisions[q]) <= submissions[q]
        /\ status'[q] = "pending_review" =>
             Len(decisions[q]) + 1 <= submissions[q]
    BY <1>2, <2>1, <2>2, OneMore
  <2> QED
    BY <2>1, <2>3, OneMore
<1> QED
  BY <1>3, <1>4, <1>5, <1>6 DEF PInv

\* A decision finds a submission that waits, and uses it up.
LEMMA ModerateKeeps ==
  ASSUME PInv, NEW p \in Publications, NEW verdict \in Verdicts,
         ModeratePublication(p, verdict)
  PROVE  PInv'
<1> USE DEF photoVars, sessionVars
<1>0. TypeOK /\ decisions[p] \in Seq(Verdicts)
  BY DEF PInv, TypeOK
<1>1. /\ status' = [status EXCEPT ![p] = verdict]
      /\ status[p] = "pending_review"
      /\ decisions' = [decisions EXCEPT ![p] = Append(@, verdict)]
      /\ approvedAt' = [approvedAt EXCEPT ![p] = verdict = "approved"]
      /\ UNCHANGED <<submittedOn, photoVars, submissions, today, sessionVars>>
  BY DEF ModeratePublication
<1>2. /\ status'[p] = verdict /\ verdict \notin {"none", "pending_review"}
      /\ \A q \in Publications \ {p} :
           status'[q] = status[q] /\ decisions'[q] = decisions[q]
             /\ approvedAt'[q] = approvedAt[q]
      /\ decisions'[p] = Append(decisions[p], verdict)
      /\ approvedAt'[p] = (verdict = "approved")
  BY <1>0, <1>1 DEF TypeOK, Verdicts
<1>3. /\ Append(decisions[p], verdict) \in Seq(Verdicts)
      /\ Len(Append(decisions[p], verdict)) = Len(decisions[p]) + 1
      /\ Append(decisions[p], verdict)[Len(decisions[p]) + 1] = verdict
      /\ Append(decisions[p], verdict) # <<>>
  BY <1>0
<1>4. TypeOK'
  <2>1. status' \in [Publications -> Statuses \cup {"none"}]
    BY <1>0, <1>1 DEF TypeOK, Statuses, Verdicts
  <2>2. decisions' \in [Publications -> Seq(Verdicts)]
    BY <1>0, <1>1, <1>3 DEF TypeOK
  <2>3. approvedAt' \in [Publications -> BOOLEAN]
    BY <1>0, <1>1 DEF TypeOK
  <2> QED
    BY <1>0, <1>1, <2>1, <2>2, <2>3 DEF TypeOK, Form
<1>5. RequestsSound'
  <2> SUFFICES ASSUME NEW t \in Workers PROVE RequestSound(t)'
    BY DEF RequestsSound
  <2>1. RequestSound(t) /\ UNCHANGED <<pc, form>>
    BY <1>1 DEF PInv, RequestsSound
  <2>2. pc[t] # "idle" => form[t].pub \in Publications
    BY <2>1, FormTyped DEF RequestSound
  <2> QED
    BY <1>1, <1>2, <2>1, <2>2 DEF RequestSound
<1>6. NoPhotosYet' /\ PhotosSound'
  BY <1>1, <1>2 DEF PInv, NoPhotosYet, PhotosSound
<1>7. ApprovedWasDecided'
  <2> SUFFICES ASSUME NEW q \in Publications, status'[q] = "approved"
               PROVE  /\ approvedAt'[q]
                      /\ decisions'[q] # <<>>
                      /\ decisions'[q][Len(decisions'[q])] = "approved"
    BY DEF ApprovedWasDecided
  <2>1. CASE q = p
    BY <1>2, <1>3, <2>1
  <2>2. CASE q # p
    BY <1>2, <2>2 DEF PInv, ApprovedWasDecided
  <2> QED
    BY <2>1, <2>2
<1>8. DecidedOnce'
  <2> SUFFICES ASSUME NEW q \in Publications
               PROVE  Len(decisions'[q])
                        + (IF status'[q] = "pending_review" THEN 1 ELSE 0)
                        <= submissions[q]
    BY <1>1 DEF DecidedOnce
  <2>1. Len(decisions[q]) \in Nat /\ submissions[q] \in Nat
    BY <1>0 DEF TypeOK
  <2>2. Len(decisions[q]) + (IF status[q] = "pending_review" THEN 1 ELSE 0)
          <= submissions[q]
    BY DEF PInv, DecidedOnce
  <2>3. CASE q = p
    <3>1. Len(decisions[p]) + 1 <= submissions[p]
      BY <1>1, <2>1, <2>2, <2>3, OneMore
    <3>2. Len(decisions'[p]) = Len(decisions[p]) + 1
      BY <1>2, <1>3
    <3>3. Len(decisions'[p]) \in Nat /\ Len(decisions'[p]) <= submissions[p]
      BY <2>1, <2>3, <3>1, <3>2
    <3> QED
      BY <1>2, <2>1, <2>3, <3>3, OneMore
  <2>4. CASE q # p
    BY <1>2, <2>2, <2>4
  <2> QED
    BY <2>3, <2>4
<1> QED
  BY <1>4, <1>5, <1>6, <1>7, <1>8 DEF PInv

\* Every step keeps the invariant, one lemma for each action above.
LEMMA StepInv == PInv /\ [Next]_vars => PInv'
<1> SUFFICES ASSUME PInv, [Next]_vars PROVE PInv'
  OBVIOUS
<1>0. TypeOK /\ RequestsSound
  BY DEF PInv
<1>1. ASSUME NEW s \in Workers, NEW p \in Publications, NEW f \in FormsFor(p),
             FillNew(s, f)
      PROVE  PInv'
  <2>1. f \in Form
    BY <1>0, SentIsForm
  <2> QED
    BY <1>1, <2>1, BeginKeeps DEF FillNew
<1>2. ASSUME NEW s \in Workers, NEW p \in Publications, NEW f \in FormsFor(p),
             FillEdit(s, f)
      PROVE  PInv'
  <2>1. f \in Form
    BY <1>0, SentIsForm
  <2>2. f.row.status = status[f.pub] /\ status[f.pub] \in Editable
    BY <1>2 DEF FillEdit, Accepted, RowOf
  <2> QED
    BY <1>2, <2>1, <2>2, BeginKeeps DEF FillEdit, Editable
<1>3. ASSUME NEW s \in Workers, NEW p \in Publications, OpenWithdrawal(s, p)
      PROVE  PInv'
  <2> DEFINE f == [pub |-> p, action |-> "save_draft", row |-> RowOf(p),
                   remove |-> {}, add |-> 0, main |-> None]
  <2>1. f \in Form /\ f.pub = p
    BY <1>0, WithdrawalIsForm
  <2>2. Validated(s, "withdrawing", f) /\ status[p] # "none"
    BY <1>3 DEF OpenWithdrawal, Withdrawable
  <2> HIDE DEF f
  <2> QED
    BY <2>1, <2>2, BeginKeeps
<1>4. ASSUME NEW s \in Workers, Abandon(s)
      PROVE  PInv'
  <2>1. UNCHANGED <<rowVars, photoVars, submissions, decisions, today>>
    BY <1>4 DEF Abandon
  <2>2. status' = status
    BY <2>1 DEF rowVars
  <2>3. /\ pc' \in [Workers -> {"idle", "creating", "editing", "withdrawing"}]
        /\ form' \in [Workers -> Form \cup {None}]
        /\ RequestsSound'
    BY <1>4, <2>2, FinishSound DEF Abandon
  <2> QED
    BY <2>1, <2>3, ReadingKeeps
<1>5. CASE NextDay
  <2>1. /\ UNCHANGED <<rowVars, photoVars, submissions, decisions, sessionVars>>
        /\ today' \in Days
    BY <1>0, <1>5, PublicationsAssumption DEF NextDay, TypeOK, Days
  <2>2. TypeOK' /\ RequestsSound'
    BY <1>0, <2>1 DEF TypeOK, RequestsSound, RequestSound, rowVars, photoVars,
                      sessionVars, Form
  <2>3. NoPhotosYet' /\ ApprovedWasDecided' /\ DecidedOnce' /\ PhotosSound'
    BY <2>1 DEF PInv, NoPhotosYet, ApprovedWasDecided, DecidedOnce, PhotosSound,
                rowVars, photoVars
  <2> QED
    BY <2>2, <2>3 DEF PInv
<1>6. CASE UNCHANGED vars
  BY <1>0, <1>6, ReadingKeeps
     DEF vars, TypeOK, RequestsSound, RequestSound, sessionVars, rowVars
<1> QED
  BY <1>1, <1>2, <1>3, <1>4, <1>5, <1>6, CreateKeeps, EditKeeps,
     WithdrawKeeps, ModerateKeeps DEF Next

\* The invariant holds for any number of requests at once.
LEMMA PInvHolds == Spec => []PInv
BY InitInv, StepInv, PTL DEF Spec

-----------------------------------------------------------------------------
\* Rows, photographs, decisions and the requests in progress keep their types.
THEOREM PublicationsTypes == Spec => []TypeOK
<1>1. PInv => TypeOK
  BY DEF PInv
<1> QED
  BY <1>1, PInvHolds, PTL

\* Whatever stale requests write, what is approved was approved by the last
\* decision about it.
THEOREM ApprovalsAreDecided == Spec => []ApprovedWasDecided
<1>1. PInv => ApprovedWasDecided
  BY DEF PInv
<1> QED
  BY <1>1, PInvHolds, PTL

\* No submission is decided twice, by however many moderators.
THEOREM SubmissionsDecidedOnce == Spec => []DecidedOnce
<1>1. PInv => DecidedOnce
  BY DEF PInv
<1> QED
  BY <1>1, PInvHolds, PTL

\* Exactly one photograph is first where there are any, and there never are
\* more than the limit, for any limit and any number of edits at a time.
THEOREM PhotosStaySound == Spec => []PhotosSound
<1>1. PInv => PhotosSound
  BY DEF PInv
<1> QED
  BY <1>1, PInvHolds, PTL

-----------------------------------------------------------------------------
(***************************************************************************)
(* The daily limit.  The count is read before the transaction that adds to *)
(* it, so the limit may be passed (DailyLimitHolds is not an invariant).   *)
(* By how much: a publication counts today once it is submitted today and  *)
(* already while a form that would have it so is being handled.  Only a    *)
(* submission that finds the count below the limit adds to those, and then *)
(* they are the ones counted and the ones in progress, one for each        *)
(* request.                                                                *)
(***************************************************************************)
\* s is to write a whole row.
Writing(s) == pc[s] \in {"creating", "editing"}

SubmittedToday(u) ==
  {p \in Publications : Submitter[p] = u /\ submittedOn[p] = today}

\* What the forms in progress are about
InProgress(u) ==
  {p \in Publications :
     Submitter[p] = u /\ \E s \in Workers : Writing(s) /\ form[s].pub = p}

\* s would leave p submitted today.
WouldCount(s, p) ==
  /\ Writing(s) /\ form[s].pub = p
  /\ form[s].action = "submit" \/ form[s].row.submittedOn = today

Counted(u) ==
  {p \in Publications :
     /\ Submitter[p] = u
     /\ submittedOn[p] = today \/ \E s \in Workers : WouldCount(s, p)}

\* No row carries a day to come, and no form has read one.
DaysSound ==
  /\ \A p \in Publications : submittedOn[p] # None => submittedOn[p] <= today
  /\ \A s \in Workers : Writing(s) /\ form[s].row.submittedOn # None =>
       form[s].row.submittedOn <= today

\* n is never passed by anybody.
CountedWithin(n) ==
  \A u \in Citizens : IsFiniteSet(Counted(u)) /\ Cardinality(Counted(u)) <= n

\* At most k forms of one person are in progress.
AtOnce(k) ==
  \A u \in Citizens :
    IsFiniteSet(InProgress(u)) /\ Cardinality(InProgress(u)) <= k

\* How many one person submits on a day: every request but one may add one.
AtMost ==
  IF DailyLimit = 0 THEN 0 ELSE DailyLimit + Cardinality(Workers) - 1

OvershootIsBounded == \A u \in Citizens : DailySubmissionCount(u) <= AtMost

\* A citizen waits for the answer to a form before sending the next.
OneFormAtATime ==
  \A s, t \in Workers :
    Writing(s) /\ Writing(t)
      /\ Submitter[form[s].pub] = Submitter[form[t].pub] => s = t

\* What a submission in flight may leave counted: nothing more, or what is
\* counted and what is in progress, and the count was below the limit.
AddsWithinLimit(u) ==
  \/ Counted(u)' \subseteq Counted(u)
  \/ /\ DailySubmissionCount(u) < DailyLimit
     /\ Counted(u)' \subseteq SubmittedToday(u) \cup InProgress(u)'

\* The days a form carries are days.
LEMMA DaysTyped ==
  ASSUME PInv
  PROVE  /\ today \in Nat
         /\ \A p \in Publications : submittedOn[p] \in Nat \cup {None}
         /\ \A s \in Workers : pc[s] # "idle" =>
              /\ form[s] \in Form
              /\ form[s].pub \in Publications
              /\ form[s].action \in {"save_draft", "submit"}
              /\ form[s].row.submittedOn \in Nat \cup {None}
         /\ None \notin Nat
<1>1. TypeOK /\ RequestsSound
  BY DEF PInv
<1>2. Days \subseteq Nat /\ None \notin Nat
  BY PublicationsAssumption DEF Days
<1>3. ASSUME NEW s \in Workers, pc[s] # "idle"
      PROVE  /\ form[s] \in Form
             /\ form[s].pub \in Publications
             /\ form[s].action \in {"save_draft", "submit"}
             /\ form[s].row.submittedOn \in Nat \cup {None}
  <2>1. form[s] \in Form
    BY <1>1, <1>3 DEF RequestsSound, RequestSound
  <2> QED
    BY <1>2, <2>1, FormTyped
<1> QED
  BY <1>1, <1>2, <1>3 DEF TypeOK

\* A form that begins has read the row as it is.
LEMMA FillCounts ==
  ASSUME PInv, DaysSound, NEW s \in Workers, NEW f \in Form,
         NEW step \in {"creating", "editing"},
         Accepted(f), Validated(s, step, f), NEW u
  PROVE  DaysSound' /\ AddsWithinLimit(u)
<1>0. /\ TypeOK /\ f.pub \in Publications
      /\ f.action \in {"save_draft", "submit"}
      /\ f.row = RowOf(f.pub)
  BY FormTyped DEF PInv, Accepted
<1>1. f.row.submittedOn = submittedOn[f.pub]
  BY <1>0 DEF RowOf
<1>2. /\ pc'[s] = step /\ form'[s] = f /\ pc[s] = "idle"
      /\ \A t \in Workers \ {s} : pc'[t] = pc[t] /\ form'[t] = form[t]
      /\ UNCHANGED <<submittedOn, today>>
  BY <1>0 DEF Validated, TypeOK, rowVars
<1>3. DaysSound'
  BY <1>0, <1>1, <1>2 DEF DaysSound, Writing
<1>4. CASE f.action = "submit" /\ Submitter[f.pub] = u
  <2>1. DailySubmissionCount(u) < DailyLimit
    BY <1>4 DEF Accepted, UserCanSubmitToday
  <2>2. Counted(u)' \subseteq SubmittedToday(u) \cup InProgress(u)'
    BY <1>2 DEF Counted, SubmittedToday, InProgress, WouldCount
  <2> QED
    BY <1>3, <2>1, <2>2 DEF AddsWithinLimit
<1>5. CASE ~ (f.action = "submit" /\ Submitter[f.pub] = u)
  <2>1. ASSUME NEW p \in Counted(u)' PROVE p \in Counted(u)
    <3>1. p \in Publications /\ Submitter[p] = u
      BY DEF Counted
    <3>2. CASE submittedOn'[p] = today'
      BY <1>2, <3>1, <3>2 DEF Counted
    <3>3. CASE \E t \in Workers : WouldCount(t, p)'
      <4>1. PICK t \in Workers : WouldCount(t, p)'
        BY <3>3
      <4>2. CASE t = s
        BY <1>0, <1>1, <1>2, <1>5, <3>1, <4>1, <4>2 DEF Counted, WouldCount
      <4>3. CASE t # s
        BY <1>2, <3>1, <4>1, <4>3 DEF Counted, WouldCount, Writing
      <4> QED
        BY <4>2, <4>3
    <3> QED
      BY <3>2, <3>3 DEF Counted
  <2> QED
    BY <1>3, <2>1 DEF AddsWithinLimit
<1> QED
  BY <1>4, <1>5

\* A form that ends wrote the day it would have counted by, or no day.
LEMMA EndCounts ==
  ASSUME PInv, DaysSound, NEW s \in Workers, pc[s] # "idle", Finish(s),
         today' = today,
         \/ UNCHANGED submittedOn
         \/ /\ Writing(s)
            /\ \E st : WriteRow(form[s], st),
         NEW u
  PROVE  DaysSound' /\ AddsWithinLimit(u)
<1> DEFINE f == form[s]
<1>0. TypeOK /\ f.pub \in Publications
  BY DaysTyped DEF PInv
<1>1. /\ pc'[s] = "idle"
      /\ \A t \in Workers \ {s} : pc'[t] = pc[t] /\ form'[t] = form[t]
  BY <1>0 DEF Finish, TypeOK
<1>2. \/ UNCHANGED submittedOn
      \/ /\ Writing(s)
         /\ submittedOn'[f.pub] = IF f.action = "submit" THEN today
                                                  ELSE f.row.submittedOn
         /\ \A p \in Publications \ {f.pub} : submittedOn'[p] = submittedOn[p]
  BY <1>0 DEF WriteRow, TypeOK
<1>3. DaysSound'
  <2>1. ASSUME NEW p \in Publications, submittedOn'[p] # None
        PROVE  submittedOn'[p] <= today
    BY <1>2, <2>1, DaysTyped DEF DaysSound
  <2>2. ASSUME NEW t \in Workers, Writing(t)', form'[t].row.submittedOn # None
        PROVE  form'[t].row.submittedOn <= today
    BY <1>1, <2>2 DEF DaysSound, Writing
  <2> QED
    BY <2>1, <2>2 DEF DaysSound
<1>4. ASSUME NEW p \in Counted(u)' PROVE p \in Counted(u)
  <2>1. p \in Publications /\ Submitter[p] = u
    BY DEF Counted
  <2>2. CASE submittedOn'[p] = today'
    <3>1. submittedOn[p] = today \/ WouldCount(s, p)
      BY <1>2, <2>1, <2>2 DEF WouldCount
    <3> QED
      BY <2>1, <3>1 DEF Counted
  <2>3. CASE \E t \in Workers : WouldCount(t, p)'
    <3>1. PICK t \in Workers : WouldCount(t, p)'
      BY <2>3
    <3>2. WouldCount(t, p)
      BY <1>1, <3>1 DEF WouldCount, Writing
    <3> QED
      BY <2>1, <3>2 DEF Counted
  <2> QED
    BY <2>2, <2>3 DEF Counted
<1> QED
  BY <1>3, <1>4 DEF AddsWithinLimit

\* Only a submission found below the limit adds to what counts.
LEMMA StepCounts ==
  ASSUME PInv, DaysSound, [Next]_vars, NEW u
  PROVE  DaysSound' /\ AddsWithinLimit(u)
<1>0. TypeOK
  BY DEF PInv
<1>1. ASSUME NEW s \in Workers, NEW p \in Publications, NEW f \in FormsFor(p),
             FillNew(s, f) \/ FillEdit(s, f)
      PROVE  DaysSound' /\ AddsWithinLimit(u)
  <2>1. f \in Form
    BY <1>0, SentIsForm
  <2> QED
    BY <1>1, <2>1, FillCounts DEF FillNew, FillEdit
<1>2. ASSUME NEW s \in Workers,
             CreatePublication(s) \/ EditPublication(s)
               \/ WithdrawPublication(s) \/ Abandon(s)
      PROVE  DaysSound' /\ AddsWithinLimit(u)
  <2>1. /\ pc[s] # "idle" /\ Finish(s) /\ today' = today
        /\ \/ UNCHANGED submittedOn
           \/ Writing(s) /\ \E st : WriteRow(form[s], st)
    BY <1>2 DEF CreatePublication, EditPublication, WithdrawPublication,
                Abandon, Writing, rowVars
  <2> QED
    BY <2>1, EndCounts
<1>3. ASSUME NEW s \in Workers, NEW p \in Publications, OpenWithdrawal(s, p)
      PROVE  DaysSound' /\ AddsWithinLimit(u)
  <2>1. /\ pc[s] = "idle" /\ pc'[s] = "withdrawing"
        /\ \A t \in Workers \ {s} : pc'[t] = pc[t] /\ form'[t] = form[t]
        /\ UNCHANGED <<submittedOn, today>>
    BY <1>0, <1>3 DEF OpenWithdrawal, Validated, TypeOK, rowVars
  <2>2. \A t \in Workers : Writing(t)' => Writing(t) /\ form'[t] = form[t]
    BY <2>1 DEF Writing
  <2> QED
    BY <2>1, <2>2 DEF DaysSound, AddsWithinLimit, Counted, WouldCount
<1>4. ASSUME UNCHANGED <<submittedOn, today, pc, form>>
      PROVE  DaysSound' /\ AddsWithinLimit(u)
  BY <1>4 DEF DaysSound, AddsWithinLimit, Counted, WouldCount, Writing
<1>5. ASSUME NEW p \in Publications, NEW verdict \in Verdicts,
             ModeratePublication(p, verdict)
      PROVE  DaysSound' /\ AddsWithinLimit(u)
  BY <1>4, <1>5 DEF ModeratePublication, sessionVars
<1>6. CASE NextDay
  <2>1. today' = today + 1 /\ UNCHANGED <<submittedOn, pc, form>>
    BY <1>6 DEF NextDay, rowVars, sessionVars
  <2>2. /\ \A p \in Publications : submittedOn[p] # today + 1
        /\ \A s \in Workers : Writing(s) =>
             form[s].row.submittedOn # today + 1
    BY DaysTyped DEF DaysSound, Writing
  <2>3. Counted(u)' \subseteq Counted(u)
    BY <2>1, <2>2 DEF Counted, WouldCount, Writing
  <2>4. DaysSound'
    <3>1. ASSUME NEW p \in Publications, submittedOn'[p] # None
          PROVE  submittedOn'[p] <= today'
      BY <2>1, <3>1, DaysTyped DEF DaysSound
    <3>2. ASSUME NEW s \in Workers, Writing(s)', form'[s].row.submittedOn # None
          PROVE  form'[s].row.submittedOn <= today'
      BY <2>1, <3>2, DaysTyped DEF DaysSound, Writing
    <3> QED
      BY <3>1, <3>2 DEF DaysSound
  <2> QED
    BY <2>3, <2>4 DEF AddsWithinLimit
<1>7. CASE UNCHANGED vars
  BY <1>4, <1>7 DEF vars, rowVars, sessionVars
<1> QED
  BY <1>1, <1>2, <1>3, <1>5, <1>6, <1>7 DEF Next

\* Nothing is counted before the first request.
LEMMA InitCounts ==
  ASSUME Init, NEW n \in Nat
  PROVE  DaysSound /\ CountedWithin(n)
<1> USE DEF Init, Writing
<1>1. DaysSound
  BY DEF DaysSound
<1>2. ASSUME NEW u \in Citizens PROVE Counted(u) = {}
  BY PublicationsAssumption DEF Counted, WouldCount
<1>3. CountedWithin(n)
  <2> SUFFICES ASSUME NEW u \in Citizens
               PROVE  IsFiniteSet(Counted(u)) /\ Cardinality(Counted(u)) <= n
    BY DEF CountedWithin
  <2>1. Counted(u) = {}
    BY <1>2
  <2>2. IsFiniteSet(Counted(u)) /\ Cardinality(Counted(u)) = 0
    BY <2>1, FS_EmptySet
  <2> QED
    BY <2>2
<1> QED
  BY <1>1, <1>3

\* The number n that is never passed: the limit less one and what may be in
\* progress when a submission begins.
LEMMA StepWithin ==
  ASSUME NEW n \in Nat, NEW k \in Nat, DailyLimit > 0 => DailyLimit - 1 + k <= n,
         PInv, DaysSound, CountedWithin(n), [Next]_vars, AtOnce(k)'
  PROVE  DaysSound' /\ CountedWithin(n)'
<1>1. ASSUME NEW u \in Citizens
      PROVE  IsFiniteSet(Counted(u)') /\ Cardinality(Counted(u)') <= n
  <2>1. AddsWithinLimit(u)
    BY StepCounts
  <2>2. /\ IsFiniteSet(Counted(u)) /\ Cardinality(Counted(u)) <= n
        /\ Cardinality(Counted(u)) \in Nat
    BY FS_CardinalityType DEF CountedWithin
  <2>3. CASE Counted(u)' \subseteq Counted(u)
    <3>1. /\ IsFiniteSet(Counted(u)')
          /\ Cardinality(Counted(u)') <= Cardinality(Counted(u))
      BY <2>2, <2>3, FS_Subset
    <3> QED
      BY <2>1, <2>2, <3>1, FS_CardinalityType
  <2>4. CASE /\ DailySubmissionCount(u) < DailyLimit
             /\ Counted(u)' \subseteq SubmittedToday(u) \cup InProgress(u)'
    <3> DEFINE T == SubmittedToday(u)
               P == InProgress(u)'
    <3>1. DailySubmissionCount(u) = Cardinality(T)
      BY DEF DailySubmissionCount, SubmittedToday
    <3>2. IsFiniteSet(T)
      <4>1. T \subseteq Counted(u)
        BY DEF Counted, SubmittedToday
      <4> QED
        BY <2>2, <4>1, FS_Subset
    <3>3. IsFiniteSet(P) /\ Cardinality(P) <= k
      BY DEF AtOnce
    <3> HIDE DEF T, P
    <3>4. /\ IsFiniteSet(T \cup P) /\ IsFiniteSet(T \cap P)
          /\ Cardinality(T \cup P)
               = Cardinality(T) + Cardinality(P) - Cardinality(T \cap P)
      BY <3>2, <3>3, FS_Union, FS_Intersection
    <3>5. /\ Cardinality(T) \in Nat /\ Cardinality(P) \in Nat
          /\ Cardinality(T \cap P) \in Nat /\ Cardinality(T \cup P) \in Nat
      BY <3>2, <3>3, <3>4, FS_CardinalityType
    <3>6. Cardinality(T \cup P) <= n
      BY <2>4, <3>1, <3>3, <3>4, <3>5, PublicationsAssumption
    <3>7. Counted(u)' \subseteq T \cup P
      BY <2>4 DEF T, P
    <3>8. /\ IsFiniteSet(Counted(u)')
          /\ Cardinality(Counted(u)') <= Cardinality(T \cup P)
      BY <3>4, <3>7, FS_Subset
    <3>9. Cardinality(Counted(u)') \in Nat
      BY <3>8, FS_CardinalityType
    <3> QED
      BY <2>1, <3>5, <3>6, <3>8, <3>9
  <2> QED
    BY <2>1, <2>3, <2>4 DEF AddsWithinLimit
<1>2. DaysSound'
  BY StepCounts
<1> QED
  BY <1>1, <1>2 DEF CountedWithin

\* What finitely many point at is finite, and no more than they are.
LEMMA PointedAt ==
  ASSUME NEW W, IsFiniteSet(W), NEW P, NEW g,
         \A p \in P : \E w \in W : g[w] = p
  PROVE  IsFiniteSet(P) /\ Cardinality(P) <= Cardinality(W)
<1> DEFINE D == {w \in W : g[w] \in P}
           h == [w \in D |-> g[w]]
<1>1. IsFiniteSet(D) /\ Cardinality(D) <= Cardinality(W)
  BY FS_Subset
<1>2. h \in Surjection(D, P)
  BY DEF Surjection
<1> HIDE DEF D, h
<1>3. IsFiniteSet(P) /\ Cardinality(P) <= Cardinality(D)
  BY <1>1, <1>2, FS_Surjection
<1>4. /\ Cardinality(P) \in Nat /\ Cardinality(D) \in Nat
      /\ Cardinality(W) \in Nat
  BY <1>1, <1>3, FS_CardinalityType
<1> QED
  BY <1>1, <1>3, <1>4

\* There are no more forms in progress than requests,
LEMMA OneEach == IsFiniteSet(Workers) => AtOnce(Cardinality(Workers))
<1> SUFFICES ASSUME IsFiniteSet(Workers), NEW u \in Citizens
             PROVE  /\ IsFiniteSet(InProgress(u))
                    /\ Cardinality(InProgress(u)) <= Cardinality(Workers)
  BY DEF AtOnce
<1> DEFINE g == [s \in Workers |-> form[s].pub]
<1>1. \A p \in InProgress(u) : \E s \in Workers : g[s] = p
  BY DEF InProgress
<1> HIDE DEF g
<1> QED
  BY <1>1, PointedAt

\* and one of each person if nobody sends two at a time.
LEMMA OneForm == OneFormAtATime => AtOnce(1)
<1> SUFFICES ASSUME OneFormAtATime, NEW u \in Citizens
             PROVE  IsFiniteSet(InProgress(u)) /\ Cardinality(InProgress(u)) <= 1
  BY DEF AtOnce
<1>1. CASE InProgress(u) = {}
  <2>1. IsFiniteSet({}) /\ Cardinality({}) = 0
    BY FS_EmptySet
  <2> QED
    BY <1>1, <2>1
<1>2. CASE InProgress(u) # {}
  <2>1. PICK p : p \in InProgress(u)
    BY <1>2
  <2>2. InProgress(u) = {p}
    BY <2>1 DEF InProgress, OneFormAtATime
  <2>3. IsFiniteSet({p}) /\ Cardinality({p}) = 1
    BY FS_Singleton
  <2> QED
    BY <2>2, <2>3
<1> QED
  BY <1>1, <1>2

\* What is submitted today counts.
LEMMA CountedIsEnough ==
  ASSUME NEW n \in Nat, CountedWithin(n), NEW u \in Citizens
  PROVE  DailySubmissionCount(u) <= n
<1>1. SubmittedToday(u) \subseteq Counted(u)
  BY DEF SubmittedToday, Counted
<1>2. /\ IsFiniteSet(Counted(u)) /\ Cardinality(Counted(u)) <= n
  BY DEF CountedWithin
<1>3. /\ IsFiniteSet(SubmittedToday(u))
      /\ Cardinality(SubmittedToday(u)) <= Cardinality(Counted(u))
  BY <1>1, <1>2, FS_Subset
<1>4. /\ Cardinality(SubmittedToday(u)) \in Nat
      /\ Cardinality(Counted(u)) \in Nat
  BY <1>2, <1>3, FS_CardinalityType
<1>5. DailySubmissionCount(u) = Cardinality(SubmittedToday(u))
  BY DEF DailySubmissionCount, SubmittedToday
<1> QED
  BY <1>2, <1>3, <1>4, <1>5

\* However many forms one person sends at a time, the daily limit is passed by
\* at most as many as there are requests, less one: the requests that found
\* one submission left (publication_create, publication_edit).
THEOREM DailyLimitIsPassedByFew ==
  IsFiniteSet(Workers) => (Spec => []OvershootIsBounded)
<1> SUFFICES ASSUME IsFiniteSet(Workers) PROVE Spec => []OvershootIsBounded
  OBVIOUS
<1>0. PICK n, k : n = AtMost /\ k = Cardinality(Workers)
  OBVIOUS
<1>1. n \in Nat /\ k \in Nat /\ (DailyLimit > 0 => DailyLimit - 1 + k <= n)
  BY <1>0, FS_CardinalityType, PublicationsAssumption DEF AtMost
<1>2. Init => DaysSound /\ CountedWithin(n)
  BY <1>1, InitCounts
<1>3. AtOnce(k)
  BY <1>0, OneEach
<1>4. PInv /\ DaysSound /\ CountedWithin(n) /\ AtOnce(k)' /\ [Next]_vars
        => DaysSound' /\ CountedWithin(n)'
  BY <1>1, StepWithin
<1>5. CountedWithin(n) => OvershootIsBounded
  BY <1>0, <1>1, CountedIsEnough DEF OvershootIsBounded
<1> QED
  BY <1>2, <1>3, <1>4, <1>5, PInvHolds, PTL DEF Spec

\* A citizen who waits for each answer never passes the daily limit: only
\* forms of the same person in progress at the same time do.
THEOREM DailyLimitKeptInTurn == Spec /\ []OneFormAtATime => []DailyLimitHolds
<1>0. DailyLimit \in Nat /\ (DailyLimit > 0 => DailyLimit - 1 + 1 <= DailyLimit)
  BY PublicationsAssumption
<1>1. Init => DaysSound /\ CountedWithin(DailyLimit)
  BY <1>0, InitCounts
<1>2. OneFormAtATime => AtOnce(1)
  BY OneForm
<1>3. PInv /\ DaysSound /\ CountedWithin(DailyLimit) /\ AtOnce(1)' /\ [Next]_vars
        => DaysSound' /\ CountedWithin(DailyLimit)'
  BY <1>0, StepWithin
<1>4. CountedWithin(DailyLimit) => DailyLimitHolds
  BY <1>0, CountedIsEnough DEF DailyLimitHolds
<1> QED
  BY <1>1, <1>2, <1>3, <1>4, PInvHolds, PTL DEF Spec

-----------------------------------------------------------------------------
(* The photographs of a submission.                                        *)

\* What moderators find in the queue shows something.
SubmittedHasPhotos ==
  \A p \in Publications : status[p] = "pending_review" => photos[p] # {}

\* What a form in progress is to submit will have a photograph.
WillHavePhotos ==
  \A s \in Workers : Writing(s) /\ form[s].action = "submit" =>
    form[s].add > 0 \/ photos[form[s].pub] \ form[s].remove # {}

\* A form is validated against the photographs there are,
LEMMA ValidHasPhotos ==
  ASSUME TypeOK, NEW f \in Form, PhotosValid(f), f.action = "submit"
  PROVE  f.add > 0 \/ photos[f.pub] \ f.remove # {}
<1>1. /\ f.pub \in Publications /\ f.add \in Nat
      /\ f.remove \subseteq photos[f.pub]
      /\ Cardinality(photos[f.pub]) - Cardinality(f.remove) + f.add > 0
  BY FormTyped DEF PhotosValid
<1>2. IsFiniteSet(photos[f.pub])
  BY <1>1, FS_Subset, PublicationsAssumption DEF TypeOK
<1>3. /\ Cardinality(photos[f.pub]) \in Nat
  BY <1>2, FS_CardinalityType
<1>4. CASE photos[f.pub] \ f.remove = {}
  <2>1. f.remove = photos[f.pub]
    BY <1>1, <1>4
  <2> QED
    BY <1>1, <1>3, <2>1
<1> QED
  BY <1>4

\* and what it leaves is what it said, while nobody else writes the same ones.
LEMMA WrittenHasPhotos ==
  ASSUME PInv, SubmittedHasPhotos, WillHavePhotos, OneFormAtATime,
         NEW s \in Workers, Writing(s), NEW st, st # "pending_review",
         WriteRow(form[s], st), ApplyPhotoChanges(form[s]), Finish(s)
  PROVE  SubmittedHasPhotos' /\ WillHavePhotos'
<1> DEFINE f == form[s]
<1>0. TypeOK /\ f \in Form /\ f.pub \in Publications /\ f.add \in Nat
  BY DaysTyped, FormTyped DEF PInv, Writing
<1>1. PICK new \in SUBSET (Photos \ issued) :
        /\ Cardinality(new) = f.add
        /\ photos' = [photos EXCEPT ![f.pub] = (photos[f.pub] \ f.remove) \cup new]
  BY DEF ApplyPhotoChanges
<1>2. f.add > 0 => new # {}
  BY <1>1, FS_EmptySet
<1>3. /\ photos'[f.pub] = (photos[f.pub] \ f.remove) \cup new
      /\ status'[f.pub] = IF f.action = "submit" THEN "pending_review" ELSE st
      /\ \A p \in Publications \ {f.pub} :
           photos'[p] = photos[p] /\ status'[p] = status[p]
  BY <1>0, <1>1 DEF WriteRow, TypeOK
<1>4. /\ pc'[s] = "idle"
      /\ \A t \in Workers \ {s} : pc'[t] = pc[t] /\ form'[t] = form[t]
  BY <1>0 DEF Finish, TypeOK
<1>5. f.action = "submit" => photos'[f.pub] # {}
  BY <1>2, <1>3 DEF WillHavePhotos
<1>6. SubmittedHasPhotos'
  BY <1>3, <1>5 DEF SubmittedHasPhotos
<1>7. ASSUME NEW t \in Workers, Writing(t)', form'[t].action = "submit"
      PROVE  form'[t].add > 0 \/ photos'[form'[t].pub] \ form'[t].remove # {}
  <2>1. t # s /\ Writing(t) /\ form'[t] = form[t]
    BY <1>4, <1>7 DEF Writing
  <2>2. form[t].pub \in Publications /\ form[t].pub # f.pub
    BY <2>1, DaysTyped DEF OneFormAtATime, Writing
  <2> QED
    BY <1>3, <1>7, <2>1, <2>2 DEF WillHavePhotos
<1> QED
  BY <1>6, <1>7 DEF WillHavePhotos

\* A form that begins, validated
LEMMA FillHasPhotos ==
  ASSUME PInv, SubmittedHasPhotos, WillHavePhotos,
         NEW s \in Workers, NEW f \in Form,
         NEW step \in {"creating", "editing", "withdrawing"},
         Validated(s, step, f), f.action = "submit" => PhotosValid(f)
  PROVE  SubmittedHasPhotos' /\ WillHavePhotos'
<1>0. TypeOK
  BY DEF PInv
<1>1. /\ pc'[s] = step /\ form'[s] = f
      /\ \A t \in Workers \ {s} : pc'[t] = pc[t] /\ form'[t] = form[t]
      /\ UNCHANGED <<status, photos>>
  BY <1>0 DEF Validated, TypeOK, rowVars, photoVars
<1>2. f.action = "submit" => f.add > 0 \/ photos[f.pub] \ f.remove # {}
  BY <1>0, ValidHasPhotos
<1> QED
  BY <1>1, <1>2 DEF SubmittedHasPhotos, WillHavePhotos, Writing

\* With one form of a person at a time, what was counted is still there when
\* it is written.
LEMMA StepHasPhotos ==
  ASSUME PInv, SubmittedHasPhotos, WillHavePhotos, OneFormAtATime, [Next]_vars
  PROVE  SubmittedHasPhotos' /\ WillHavePhotos'
<1>0. TypeOK
  BY DEF PInv
<1>1. ASSUME NEW s \in Workers, NEW p \in Publications, NEW f \in FormsFor(p),
             FillNew(s, f) \/ FillEdit(s, f)
      PROVE  SubmittedHasPhotos' /\ WillHavePhotos'
  <2>1. f \in Form
    BY <1>0, SentIsForm
  <2> QED
    BY <1>1, <2>1, FillHasPhotos DEF FillNew, FillEdit, Accepted
<1>2. ASSUME NEW s \in Workers, NEW p \in Publications, OpenWithdrawal(s, p)
      PROVE  SubmittedHasPhotos' /\ WillHavePhotos'
  <2> DEFINE f == [pub |-> p, action |-> "save_draft", row |-> RowOf(p),
                   remove |-> {}, add |-> 0, main |-> None]
  <2>1. f \in Form /\ f.action # "submit"
    BY <1>0, WithdrawalIsForm
  <2>2. Validated(s, "withdrawing", f)
    BY <1>2 DEF OpenWithdrawal
  <2> HIDE DEF f
  <2> QED
    BY <2>1, <2>2, FillHasPhotos
<1>3. ASSUME NEW s \in Workers, CreatePublication(s)
      PROVE  SubmittedHasPhotos' /\ WillHavePhotos'
  BY <1>3, WrittenHasPhotos DEF CreatePublication, Writing
<1>4. ASSUME NEW s \in Workers, EditPublication(s)
      PROVE  SubmittedHasPhotos' /\ WillHavePhotos'
  <2>1. form[s].row.status # "pending_review"
    BY <1>4 DEF EditPublication, PInv, RequestsSound, RequestSound, Editable
  <2> QED
    BY <1>4, <2>1, WrittenHasPhotos DEF EditPublication, Writing
<1>5. ASSUME photos' = photos,
             \A p \in Publications : status'[p] = "pending_review" =>
               status[p] = "pending_review",
             \A t \in Workers : Writing(t)' => Writing(t) /\ form'[t] = form[t]
      PROVE  SubmittedHasPhotos' /\ WillHavePhotos'
  BY <1>5 DEF SubmittedHasPhotos, WillHavePhotos
<1>6. ASSUME NEW s \in Workers, WithdrawPublication(s) \/ Abandon(s)
      PROVE  SubmittedHasPhotos' /\ WillHavePhotos'
  <2>1. /\ photos' = photos
        /\ \A p \in Publications : status'[p] = "pending_review" =>
             status[p] = "pending_review"
    BY <1>0, <1>6 DEF WithdrawPublication, Abandon, TypeOK, rowVars, photoVars
  <2>2. /\ pc'[s] = "idle"
        /\ \A t \in Workers \ {s} : pc'[t] = pc[t] /\ form'[t] = form[t]
    BY <1>0, <1>6 DEF WithdrawPublication, Abandon, Finish, TypeOK
  <2>3. \A t \in Workers : Writing(t)' => Writing(t) /\ form'[t] = form[t]
    BY <2>2 DEF Writing
  <2> QED
    BY <1>5, <2>1, <2>3
<1>7. ASSUME NEW p \in Publications, NEW verdict \in Verdicts,
             ModeratePublication(p, verdict)
      PROVE  SubmittedHasPhotos' /\ WillHavePhotos'
  <2>1. /\ photos' = photos /\ UNCHANGED <<pc, form>>
        /\ status' = [status EXCEPT ![p] = verdict]
        /\ verdict # "pending_review"
    BY <1>7 DEF ModeratePublication, photoVars, sessionVars, Verdicts
  <2> QED
    BY <1>0, <1>5, <2>1 DEF TypeOK, Writing
<1>8. CASE NextDay \/ UNCHANGED vars
  <2>1. UNCHANGED <<photos, status, pc, form>>
    BY <1>8 DEF NextDay, vars, rowVars, photoVars, sessionVars
  <2> QED
    BY <1>5, <2>1 DEF Writing
<1> QED
  BY <1>1, <1>2, <1>3, <1>4, <1>6, <1>7, <1>8 DEF Next

\* A citizen who waits for each answer never leaves a submission without
\* photographs in the queue: the form counts them outside the transaction that
\* writes, and only another form of the same person in progress at the same
\* time can take the last one away (CitizenPublicationForm.clean).
THEOREM SubmissionsHavePhotos == Spec /\ []OneFormAtATime => []SubmittedHasPhotos
<1>1. Init => SubmittedHasPhotos /\ WillHavePhotos
  BY DEF Init, SubmittedHasPhotos, WillHavePhotos, Writing
<1>2. PInv /\ SubmittedHasPhotos /\ WillHavePhotos /\ OneFormAtATime /\ [Next]_vars
        => SubmittedHasPhotos' /\ WillHavePhotos'
  BY StepHasPhotos
<1> QED
  BY <1>1, <1>2, PInvHolds, PTL DEF Spec

-----------------------------------------------------------------------------
(* What becomes of an approved publication.                                *)

\* s is to write p, and read it while its citizen might still change it.
ReadBefore(s, p) ==
  /\ pc[s] \in {"editing", "withdrawing"}
  /\ form[s].pub = p
  /\ form[s].row.status \in Withdrawable

WithdrawalsSound ==
  \A s \in Workers : pc[s] = "withdrawing" =>
    form[s].row.status \in Withdrawable

\* An approved publication changes only as a request ends that read it before.
ApprovedLostToStale ==
  [][\A p \in Publications :
       status[p] = "approved" /\ status'[p] # "approved" =>
         \E s \in Workers : ReadBefore(s, p) /\ pc'[s] = "idle"]_vars

\* A withdrawal was read in a state that could be withdrawn.
LEMMA StepWithdrawals ==
  PInv /\ WithdrawalsSound /\ [Next]_vars => WithdrawalsSound'
<1> SUFFICES ASSUME PInv, WithdrawalsSound, [Next]_vars,
                    NEW s \in Workers, pc'[s] = "withdrawing"
             PROVE  form'[s].row.status \in Withdrawable
  BY DEF WithdrawalsSound
<1>0. TypeOK
  BY DEF PInv
<1>1. CASE \E p \in Publications : OpenWithdrawal(s, p)
  BY <1>0, <1>1 DEF OpenWithdrawal, Validated, RowOf, TypeOK
<1>2. ASSUME pc[s] = "withdrawing" /\ form'[s] = form[s]
      PROVE  form'[s].row.status \in Withdrawable
  BY <1>2 DEF WithdrawalsSound
<1>3. ASSUME NEW t \in Workers, NEW p \in Publications, OpenWithdrawal(t, p)
      PROVE  form'[s].row.status \in Withdrawable
  BY <1>0, <1>1, <1>2, <1>3 DEF OpenWithdrawal, Validated, TypeOK
<1>4. ASSUME NEW t \in Workers, NEW p \in Publications, NEW f \in FormsFor(p),
             FillNew(t, f) \/ FillEdit(t, f)
      PROVE  form'[s].row.status \in Withdrawable
  BY <1>0, <1>2, <1>4 DEF FillNew, FillEdit, Validated, TypeOK
<1>5. ASSUME NEW t \in Workers,
             CreatePublication(t) \/ EditPublication(t)
               \/ WithdrawPublication(t) \/ Abandon(t)
      PROVE  form'[s].row.status \in Withdrawable
  <2>1. Finish(t)
    BY <1>5 DEF CreatePublication, EditPublication, WithdrawPublication, Abandon
  <2> QED
    BY <1>0, <1>2, <2>1 DEF Finish, TypeOK
<1>6. ASSUME UNCHANGED <<pc, form>>
      PROVE  form'[s].row.status \in Withdrawable
  BY <1>2, <1>6
<1> QED
  BY <1>3, <1>4, <1>5, <1>6
  DEF Next, ModeratePublication, NextDay, vars, sessionVars

\* An approved publication is taken back only by a request of its citizen that
\* read it before the approval and writes after it (publication_withdraw,
\* publication_edit): whoever opens the page later is refused.
THEOREM OnlyStaleRequestsUnapprove == Spec => ApprovedLostToStale
<1> DEFINE LostToStale ==
      \A p \in Publications :
        status[p] = "approved" /\ status'[p] # "approved" =>
          \E s \in Workers : ReadBefore(s, p) /\ pc'[s] = "idle"
<1>1. Init => WithdrawalsSound
  BY DEF Init, WithdrawalsSound
<1>2. PInv /\ WithdrawalsSound /\ [Next]_vars => [LostToStale]_vars
  <2> SUFFICES ASSUME PInv, WithdrawalsSound, Next, NEW p \in Publications,
                      status[p] = "approved", status'[p] # "approved"
               PROVE  \E s \in Workers : ReadBefore(s, p) /\ pc'[s] = "idle"
    BY DEF LostToStale
  <2>0. TypeOK /\ RequestsSound
    BY DEF PInv
  <2>1. PICK s \in Workers :
          CreatePublication(s) \/ EditPublication(s) \/ WithdrawPublication(s)
    <3>1. ASSUME NEW q \in Publications, NEW verdict \in Verdicts,
                 ModeratePublication(q, verdict)
          PROVE  FALSE
      BY <2>0, <3>1 DEF ModeratePublication, TypeOK
    <3>2. status' # status
      OBVIOUS
    <3> QED
      BY <3>1, <3>2 DEF Next, FillNew, FillEdit, OpenWithdrawal, Validated,
                        Abandon, NextDay, rowVars
  <2>2. pc'[s] = "idle" /\ pc[s] \in {"creating", "editing", "withdrawing"}
    BY <2>0, <2>1 DEF CreatePublication, EditPublication, WithdrawPublication,
                      Finish, TypeOK
  <2>3. form[s].pub = p
    BY <2>0, <2>1 DEF CreatePublication, EditPublication, WithdrawPublication,
                      WriteRow, TypeOK
  <2>4. pc[s] # "creating"
    BY <2>0, <2>3 DEF RequestsSound, RequestSound
  <2>5. form[s].row.status \in Withdrawable
    BY <2>0, <2>2, <2>4
    DEF WithdrawalsSound, RequestsSound, RequestSound, Editable, Withdrawable
  <2> QED
    BY <2>2, <2>3, <2>4, <2>5 DEF ReadBefore
<1> QED
  BY <1>1, <1>2, StepWithdrawals, PInvHolds, PTL
  DEF Spec, ApprovedLostToStale
=============================================================================
