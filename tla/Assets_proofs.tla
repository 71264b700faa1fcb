--------------------------- MODULE Assets_proofs ---------------------------
(***************************************************************************)
(* Proofs about Assets, for any assets, offers, users, files and requests. *)
(***************************************************************************)
EXTENDS Assets, TLAPS

USE DeclaredAssumption, NoneAssumption, RowsAssumption

THEOREM Initially == Init => IInv
  BY DEF Init, IInv, TypeOK, OffersAreInStock, HoldersAgreed, LinksMatch, StoredWasDeclared,
         VerdictsAreTrue, Idle

-----------------------------------------------------------------------------
(* What a step of one part leaves alone in the others *)

\* The invoice part of the invariant holds on while no asset's link changes.
LEMMA UploadsUntouched ==
  ASSUME IInv, UNCHANGED uploads,
         \A a \in Items : asset'[a] # None /\ asset'[a].file # None =>
             asset[a] # None /\ asset'[a].file = asset[a].file /\ asset'[a].ref = asset[a].ref
  PROVE  LinksMatch' /\ StoredWasDeclared' /\ VerdictsAreTrue'
  BY DEF IInv, uploads, LinksMatch, StoredWasDeclared, VerdictsAreTrue

\* Steps on the files leave the assets and the offers alone.
LEMMA AssetsUntouched ==
  ASSUME IInv, UNCHANGED <<asset, offer>>
  PROVE  OffersAreInStock' /\ HoldersAgreed'
  BY DEF IInv, OffersAreInStock, HoldersAgreed

\* An asset that is inserted, or that nobody waits for and nobody holds
\* afterwards, disturbs neither the offers nor the other holders.
LEMMA OneAssetChanged ==
  ASSUME IInv, NEW a \in Items, NEW row, UNCHANGED offer,
         asset' = [asset EXCEPT ![a] = row],
         ~Pending(a) \/ (row # None /\ row.status = "in_stock" /\ row.holder = None),
         row.status = "assigned" => row.holder # None,
         row.holder # None =>
             /\ asset[a] # None /\ asset[a].holder = row.holder
             /\ row.status \in {"assigned", "in_repair"}
  PROVE  OffersAreInStock' /\ HoldersAgreed'
  <1>1. \A b \in Items : asset'[b] = IF b = a THEN row ELSE asset[b]
    BY DEF IInv, TypeOK
  <1>2. OffersAreInStock'
    BY <1>1 DEF IInv, TypeOK, OffersAreInStock, Pending, OfferRow
  <1>3. HoldersAgreed'
    BY <1>1 DEF IInv, HoldersAgreed
  <1> QED BY <1>2, <1>3

\* A holder's agreement is an offer that was made.
LEMMA AgreementsAreRows ==
  ASSUME IInv, NEW a \in Items, asset[a] # None, asset[a].holder # None
  PROVE  [item |-> a, to |-> asset[a].holder, status |-> "confirmed"] # None
  <1>1. asset[a].holder \in Users
    BY DEF IInv, TypeOK, AssetRow
  <1>2. [item |-> a, to |-> asset[a].holder, status |-> "confirmed"] \in OfferRow
    BY <1>1 DEF OfferRow, Answers
  <1> QED BY <1>2

-----------------------------------------------------------------------------
(* Assets *)

LEMMA RegisterKeeps ==
  ASSUME IInv, NEW a \in Items, Register(a)
  PROVE  IInv'
  <1> USE DEF IInv
  <1>1. PICK status \in {"ordered", "in_stock"}, ref \in Refs \cup {None} :
             asset' = [asset EXCEPT ![a] = NewAsset(status, None, ref)]
    BY DEF Register
  <1>2. UNCHANGED <<offer, uploads>> /\ asset[a] = None
    BY DEF Register
  <1>3. TypeOK'
    BY <1>1, <1>2 DEF TypeOK, NewAsset, AssetRow, Status, uploads
  <1>4. ~Pending(a)
    BY <1>2 DEF Pending, OffersAreInStock, TypeOK, OfferRow
  <1>5. OffersAreInStock' /\ HoldersAgreed'
    BY <1>1, <1>2, <1>4, OneAssetChanged DEF NewAsset
  <1>6. LinksMatch' /\ StoredWasDeclared' /\ VerdictsAreTrue'
    BY <1>1, <1>2, UploadsUntouched DEF NewAsset, TypeOK
  <1> QED BY <1>3, <1>5, <1>6

LEMMA ImportAssignedKeeps ==
  ASSUME IInv, NEW a \in Items, NEW o \in Offers, NEW u \in Users, ImportAssigned(a, o, u)
  PROVE  IInv'
  <1> USE DEF IInv
  <1>1. TypeOK'
    BY DEF ImportAssigned, TypeOK, NewAsset, AssetRow, OfferRow, Status, Answers, uploads
  <1>2. \A b \in Items : asset'[b] = IF b = a THEN NewAsset("assigned", u, None) ELSE asset[b]
    BY DEF ImportAssigned, TypeOK
  <1>3. \A q \in Offers : offer'[q] = IF q = o THEN [item |-> a, to |-> u, status |-> "confirmed"]
                                               ELSE offer[q]
    BY DEF ImportAssigned, TypeOK
  <1>4. OffersAreInStock'
    BY <1>2, <1>3 DEF ImportAssigned, OffersAreInStock, TypeOK, OfferRow
  <1>5. HoldersAgreed'
    <2> SUFFICES ASSUME NEW b \in Items, asset'[b] # None
                 PROVE  /\ asset'[b].status = "assigned" => asset'[b].holder # None
                        /\ asset'[b].holder # None =>
                             /\ asset'[b].status \in {"assigned", "in_repair"}
                             /\ \E q \in Offers : offer'[q] =
                                   [item |-> b, to |-> asset'[b].holder, status |-> "confirmed"]
      BY DEF HoldersAgreed
    <2>1. CASE b = a
      BY <1>2, <1>3, <2>1 DEF NewAsset
    <2>2. CASE b # a
      <3>1. asset'[b] = asset[b] /\ offer[o] = None
        BY <1>2, <2>2 DEF ImportAssigned
      <3> QED BY <1>3, <3>1, AgreementsAreRows DEF HoldersAgreed
    <2> QED BY <2>1, <2>2
  <1>6. LinksMatch' /\ StoredWasDeclared' /\ VerdictsAreTrue'
    BY <1>2, UploadsUntouched DEF ImportAssigned, NewAsset
  <1> QED BY <1>1, <1>4, <1>5, <1>6

\* An asset with an offer waiting stands in stock: only the return of an
\* assigned, the receipt of an ordered, the end of a repair and the finding of
\* a lost asset take no look at offers, and none of them starts there.
LEMMA ApplyTransitionKeeps ==
  ASSUME IInv, NEW a \in Items, NEW rule \in Transitions, ApplyTransition(a, rule)
  PROVE  IInv'
  <1> USE DEF IInv
  <1> DEFINE row == [asset[a] EXCEPT
               !.status = IF asset[a].holder = None THEN rule.free ELSE rule.held,
               !.holder = IF rule.clears THEN None ELSE asset[a].holder]
  <1>0. asset' = [asset EXCEPT ![a] = row]
    BY DEF ApplyTransition
  <1>1. /\ UNCHANGED <<offer, uploads>>
        /\ asset[a] \in AssetRow /\ asset[a].status \in rule.from /\ ~Blocked(a, rule)
        /\ asset[a] # None
    BY DEF ApplyTransition, TypeOK, Live
  <1>2. /\ rule.free \in Status /\ rule.held \in Status
    BY DEF Transitions, Rule, Status
  <1>3. row \in AssetRow /\ row # None
    BY <1>1, <1>2 DEF AssetRow
  <1>4. TypeOK'
    BY <1>0, <1>1, <1>3 DEF TypeOK, uploads
  <1>5. "in_stock" \in rule.from => rule.blocked
    BY DEF Transitions, Rule
  <1>6. ~Pending(a)
    BY <1>1, <1>5 DEF Blocked, Pending, OffersAreInStock
  <1>7. /\ rule.free # "assigned"
        /\ ~rule.clears /\ rule.from \cap {"assigned", "in_repair"} # {} =>
               rule.held \in {"assigned", "in_repair"}
        /\ rule.held = "assigned" => ~rule.clears
    BY DEF Transitions, Rule
  <1>8. /\ row.holder = IF rule.clears THEN None ELSE asset[a].holder
        /\ row.status = IF asset[a].holder = None THEN rule.free ELSE rule.held
        /\ row.file = asset[a].file /\ row.ref = asset[a].ref
    BY <1>1 DEF AssetRow
  <1>9. asset[a].holder # None => asset[a].status \in {"assigned", "in_repair"}
    BY <1>1 DEF HoldersAgreed
  <1>10. /\ row.status = "assigned" => row.holder # None
         /\ row.holder # None => /\ asset[a].holder = row.holder
                                 /\ row.status \in {"assigned", "in_repair"}
    BY <1>1, <1>2, <1>7, <1>8, <1>9
  <1> HIDE DEF row
  <1>11. OffersAreInStock' /\ HoldersAgreed'
    BY <1>0, <1>1, <1>6, <1>10, OneAssetChanged
  <1>12. LinksMatch' /\ StoredWasDeclared' /\ VerdictsAreTrue'
    BY <1>0, <1>1, <1>8, UploadsUntouched DEF TypeOK
  <1> QED BY <1>4, <1>11, <1>12

LEMMA DisposeKeeps ==
  ASSUME IInv, NEW a \in Items, Dispose(a)
  PROVE  IInv'
  <1> USE DEF IInv
  <1> DEFINE row == [asset[a] EXCEPT !.status = "disposed", !.holder = None]
  <1>1. /\ asset' = [asset EXCEPT ![a] = row] /\ UNCHANGED <<offer, uploads>>
        /\ asset[a] \in AssetRow /\ ~Pending(a) /\ asset[a] # None
    BY DEF Dispose, TypeOK, Live
  <1>2. /\ row \in AssetRow /\ row.status = "disposed" /\ row.holder = None
        /\ row.file = asset[a].file /\ row.ref = asset[a].ref
    BY <1>1 DEF AssetRow, Status
  <1> HIDE DEF row
  <1>3. TypeOK'
    BY <1>1, <1>2 DEF TypeOK, uploads
  <1>4. OffersAreInStock' /\ HoldersAgreed'
    BY <1>1, <1>2, OneAssetChanged
  <1>5. LinksMatch' /\ StoredWasDeclared' /\ VerdictsAreTrue'
    BY <1>1, <1>2, UploadsUntouched DEF TypeOK
  <1> QED BY <1>3, <1>4, <1>5

LEMMA EditRefKeeps ==
  ASSUME IInv, NEW a \in Items, EditRef(a)
  PROVE  IInv'
  <1> USE DEF IInv
  <1>1. PICK ref \in Refs \cup {None} : asset' = [asset EXCEPT ![a] = Unlinked(asset[a], ref)]
    BY DEF EditRef
  <1>2. UNCHANGED <<offer, uploads>> /\ asset[a] \in AssetRow /\ asset[a] # None
    BY DEF EditRef, Live, TypeOK
  <1> DEFINE row == Unlinked(asset[a], ref)
  <1>3. /\ row \in AssetRow /\ row.status = asset[a].status /\ row.holder = asset[a].holder
        /\ row.file = None /\ asset' = [asset EXCEPT ![a] = row]
    BY <1>1, <1>2 DEF AssetRow, Unlinked
  <1> HIDE DEF row
  <1>4. TypeOK'
    BY <1>2, <1>3 DEF TypeOK, uploads
  <1>5. \A b \in Items : asset'[b] = IF b = a THEN row ELSE asset[b]
    BY <1>1 DEF TypeOK, row
  <1>6. OffersAreInStock'
    BY <1>2, <1>3, <1>5 DEF OffersAreInStock, TypeOK, OfferRow
  <1>7. HoldersAgreed'
    BY <1>2, <1>3, <1>5 DEF HoldersAgreed
  <1>8. LinksMatch' /\ StoredWasDeclared' /\ VerdictsAreTrue'
    BY <1>2, <1>3, <1>5, UploadsUntouched
  <1> QED BY <1>4, <1>6, <1>7, <1>8

-----------------------------------------------------------------------------
(* Assignments *)

LEMMA CreateAssignmentKeeps ==
  ASSUME IInv, NEW a \in Items, NEW o \in Offers, NEW u \in Users, CreateAssignment(a, o, u)
  PROVE  IInv'
  <1> USE DEF IInv
  <1>1. TypeOK'
    BY DEF CreateAssignment, TypeOK, OfferRow, uploads
  <1>2. \A q \in Offers : offer'[q] = IF q = o THEN [item |-> a, to |-> u, status |-> "pending"]
                                               ELSE offer[q]
    BY DEF CreateAssignment, TypeOK
  <1>3. asset' = asset /\ asset[a].status = "in_stock" /\ asset[a] # None /\ offer[o] = None
    BY DEF CreateAssignment, Live
  <1>4. asset[a].holder = None
    BY <1>3 DEF HoldersAgreed
  <1>5. OffersAreInStock'
    BY <1>2, <1>3, <1>4 DEF CreateAssignment, OffersAreInStock, Pending
  <1>6. HoldersAgreed'
    BY <1>2, <1>3, AgreementsAreRows DEF HoldersAgreed
  <1>7. LinksMatch' /\ StoredWasDeclared' /\ VerdictsAreTrue'
    BY <1>3, UploadsUntouched DEF CreateAssignment
  <1> QED BY <1>1, <1>5, <1>6, <1>7

LEMMA CancelAssignmentKeeps ==
  ASSUME IInv, NEW o \in Offers, CancelAssignment(o)
  PROVE  IInv'
  <1> USE DEF IInv
  <1>1. TypeOK'
    BY DEF CancelAssignment, TypeOK, OfferRow, uploads
  <1>2. \A q \in Offers : offer'[q] = IF q = o THEN [offer[o] EXCEPT !.status = "cancelled"]
                                               ELSE offer[q]
    BY DEF CancelAssignment, TypeOK
  <1>3. /\ asset' = asset /\ offer[o] \in OfferRow /\ offer[o] # None
        /\ offer[o].status = "pending"
    BY DEF CancelAssignment, StillPending, TypeOK
  <1>4. OffersAreInStock'
    BY <1>2, <1>3 DEF OffersAreInStock, OfferRow
  <1>5. HoldersAgreed'
    BY <1>2, <1>3 DEF HoldersAgreed
  <1>6. LinksMatch' /\ StoredWasDeclared' /\ VerdictsAreTrue'
    BY <1>3, UploadsUntouched DEF CancelAssignment
  <1> QED BY <1>1, <1>4, <1>5, <1>6

LEMMA AnswerAssignmentKeeps ==
  ASSUME IInv, NEW o \in Offers, NEW outcome \in Answers, AnswerAssignment(o, outcome)
  PROVE  IInv'
  <1> USE DEF IInv
  <1> DEFINE it == offer[o].item
  <1>1. /\ offer[o] \in OfferRow /\ offer[o] # None /\ offer[o].status = "pending"
        /\ it \in Items /\ offer[o].to \in Users /\ UNCHANGED uploads
    BY DEF AnswerAssignment, StillPending, TypeOK, OfferRow
  <1>2. \A q \in Offers : offer'[q] = IF q = o THEN [offer[o] EXCEPT !.status = outcome] ELSE offer[q]
    BY DEF AnswerAssignment, TypeOK
  <1>3. /\ asset[it] # None /\ asset[it] \in AssetRow /\ asset[it].holder = None
    BY <1>1 DEF OffersAreInStock, TypeOK
  <1>4. offer'[o] = [item |-> it, to |-> offer[o].to, status |-> outcome]
    BY <1>1, <1>2 DEF OfferRow
  <1>5. CASE asset' = asset /\ outcome = "declined"
    <2>1. TypeOK'
      BY <1>1, <1>5 DEF AnswerAssignment, TypeOK, OfferRow, Answers, uploads
    <2>2. OffersAreInStock'
      BY <1>2, <1>4, <1>5 DEF OffersAreInStock
    <2>3. HoldersAgreed'
      BY <1>1, <1>2, <1>5 DEF HoldersAgreed
    <2>4. LinksMatch' /\ StoredWasDeclared' /\ VerdictsAreTrue'
      BY <1>1, <1>5, UploadsUntouched
    <2> QED BY <2>1, <2>2, <2>3, <2>4
  <1>6. CASE /\ outcome = "confirmed"
             /\ asset' = [asset EXCEPT ![it] =
                             [asset[it] EXCEPT !.status = "assigned", !.holder = offer[o].to]]
    <2> DEFINE row == [asset[it] EXCEPT !.status = "assigned", !.holder = offer[o].to]
    <2>1. /\ row \in AssetRow /\ row.status = "assigned" /\ row.holder = offer[o].to
          /\ row.file = asset[it].file /\ row.ref = asset[it].ref
      BY <1>1, <1>3 DEF AssetRow, Status
    <2>2. \A b \in Items : asset'[b] = IF b = it THEN row ELSE asset[b]
      BY <1>6 DEF TypeOK
    <2> HIDE DEF row
    <2>3. TypeOK'
      <3>1. asset' \in [Items -> AssetRow \cup {None}]
        BY <1>6, <2>1, <2>2 DEF TypeOK, row
      <3>2. offer' \in [Offers -> OfferRow \cup {None}]
        BY <1>1 DEF AnswerAssignment, TypeOK, OfferRow, Answers
      <3> QED BY <1>1, <3>1, <3>2 DEF TypeOK, uploads
    <2>4. OffersAreInStock'
      <3> SUFFICES ASSUME NEW q \in Offers, offer'[q] # None, offer'[q].status = "pending"
                   PROVE  /\ asset'[offer'[q].item] # None
                          /\ asset'[offer'[q].item].status = "in_stock"
                          /\ asset'[offer'[q].item].holder = None
                          /\ \A other \in Offers \ {q} :
                                offer'[other] # None /\ offer'[other].item = offer'[q].item
                                => offer'[other].status # "pending"
        BY DEF OffersAreInStock
      <3>1. q # o /\ offer'[q] = offer[q]
        BY <1>2, <1>4, <1>6
      <3>2. offer[q].item # it /\ offer[q].item \in Items
        BY <1>1, <3>1 DEF OffersAreInStock, TypeOK, OfferRow
      <3> QED BY <1>2, <1>4, <1>6, <2>2, <3>1, <3>2 DEF OffersAreInStock
    <2>5. HoldersAgreed'
      <3> SUFFICES ASSUME NEW b \in Items, asset'[b] # None
                   PROVE  /\ asset'[b].status = "assigned" => asset'[b].holder # None
                          /\ asset'[b].holder # None =>
                               /\ asset'[b].status \in {"assigned", "in_repair"}
                               /\ \E q \in Offers : offer'[q] =
                                     [item |-> b, to |-> asset'[b].holder, status |-> "confirmed"]
        BY DEF HoldersAgreed
      <3>1. CASE b = it
        BY <1>1, <1>4, <1>6, <2>1, <2>2, <3>1
      <3>2. CASE b # it
        BY <1>1, <1>2, <2>2, <3>2 DEF HoldersAgreed
      <3> QED BY <3>1, <3>2
    <2>6. LinksMatch' /\ StoredWasDeclared' /\ VerdictsAreTrue'
      BY <1>1, <1>3, <2>1, <2>2, UploadsUntouched
    <2> QED BY <2>3, <2>4, <2>5, <2>6
  <1> QED BY <1>5, <1>6 DEF AnswerAssignment

-----------------------------------------------------------------------------
(* Invoice files *)

LEMMA MintFileKeeps ==
  ASSUME IInv, NEW f \in Files, NEW ref \in Refs, MintFile(f, ref)
  PROVE  IInv'
  <1> USE DEF IInv
  <1>1. TypeOK'
    BY DEF MintFile, TypeOK, FileRow
  <1>2. OffersAreInStock' /\ HoldersAgreed'
    BY AssetsUntouched DEF MintFile
  <1>3. \A g \in Files : file'[g] = IF g = f THEN [ref |-> ref, status |-> "pending", etag |-> None]
                                             ELSE file[g]
    BY DEF MintFile, TypeOK
  <1>4. LinksMatch'
    BY <1>3 DEF MintFile, LinksMatch, TypeOK, AssetRow
  <1>5. StoredWasDeclared' /\ VerdictsAreTrue'
    BY <1>3 DEF MintFile, StoredWasDeclared, VerdictsAreTrue
  <1> QED BY <1>1, <1>2, <1>4, <1>5

\* Posts, the policy's end, and the requests' steps that write no row.
LEMMA FilesUntouched ==
  ASSUME IInv, UNCHANGED <<asset, offer, file>>, TypeOK', VerdictsAreTrue'
  PROVE  IInv'
  BY AssetsUntouched DEF IInv, LinksMatch, StoredWasDeclared

LEMMA BrowserKeeps ==
  ASSUME IInv, NEW f \in Files, Upload(f) \/ Expire(f)
  PROVE  IInv'
  <1>1. TypeOK' /\ VerdictsAreTrue'
    BY DEF IInv, TypeOK, VerdictsAreTrue, Upload, Expire
  <1> QED BY <1>1, FilesUntouched DEF Upload, Expire

LEMMA ReadFileKeeps ==
  ASSUME IInv, NEW p \in Requests, NEW f \in Files, ReadFile(p, f)
  PROVE  IInv'
  <1>1. TypeOK' /\ VerdictsAreTrue'
    BY DEF IInv, TypeOK, VerdictsAreTrue, ReadFile
  <1> QED BY <1>1, FilesUntouched DEF ReadFile

\* What a confirmation carries at each step.
LEMMA Carries ==
  ASSUME IInv, NEW p \in Requests, confirm[p].at # "idle"
  PROVE  /\ confirm[p].file \in Files
         /\ confirm[p].at = "head" => confirm[p] \in [at : {"head"}, file : Files, head : {None}]
         /\ confirm[p].at # "head" =>
               confirm[p] \in [at : {"store", "discard", "row"}, file : Files, head : Contents]
  BY DEF IInv, TypeOK, Idle

LEMMA HeadObjectKeeps ==
  ASSUME IInv, NEW p \in Requests, HeadObject(p)
  PROVE  IInv'
  <1> USE DEF IInv
  <1> DEFINE c == object[confirm[p].file]
             next == IF c = None THEN Idle
                     ELSE [confirm[p] EXCEPT !.at = IF Accepted(c) THEN "store" ELSE "discard",
                                             !.head = c]
  <1>1. confirm[p] \in [at : {"head"}, file : Files, head : {None}]
    BY Carries DEF HeadObject
  <1>2. confirm' = [confirm EXCEPT ![p] = next] /\ UNCHANGED <<asset, offer, file, object, open>>
    BY DEF HeadObject
  <1>3. c \in Contents \cup {None}
    BY <1>1 DEF TypeOK
  <1>4. /\ next \in {Idle} \cup [at : {"store", "discard", "row"}, file : Files, head : Contents]
        /\ next.at = "store" => next.head \in Declared
    BY <1>1, <1>3 DEF Idle, Accepted
  <1> HIDE DEF next
  <1>5. TypeOK'
    BY <1>2, <1>4 DEF TypeOK
  <1>6. VerdictsAreTrue'
    BY <1>2, <1>4 DEF VerdictsAreTrue, TypeOK
  <1> QED BY <1>2, <1>5, <1>6, FilesUntouched

LEMMA DiscardObjectKeeps ==
  ASSUME IInv, NEW p \in Requests, DiscardObject(p)
  PROVE  IInv'
  <1> USE DEF IInv
  <1>1. confirm[p] \in [at : {"store", "discard", "row"}, file : Files, head : Contents]
    BY Carries DEF DiscardObject
  <1>2. [confirm[p] EXCEPT !.at = "row"]
            \in [at : {"store", "discard", "row"}, file : Files, head : Contents]
    BY <1>1
  <1>3. TypeOK'
    BY <1>1, <1>2 DEF DiscardObject, Go, TypeOK
  <1>4. VerdictsAreTrue'
    BY <1>1 DEF DiscardObject, Go, VerdictsAreTrue, TypeOK
  <1> QED BY <1>3, <1>4, FilesUntouched DEF DiscardObject

\* A row no asset can point at goes: the links are to stored files.
LEMMA DeletePendingFileKeeps ==
  ASSUME IInv, NEW p \in Requests, DeletePendingFile(p)
  PROVE  IInv'
  <1> USE DEF IInv
  <1>1. confirm[p].file \in Files
    BY Carries DEF DeletePendingFile
  <1>2. TypeOK'
    BY <1>1 DEF DeletePendingFile, End, TypeOK
  <1>3. VerdictsAreTrue'
    BY DEF DeletePendingFile, End, VerdictsAreTrue, TypeOK, Idle
  <1>4. \A g \in Files : file[g] # None /\ file[g].status = "stored" => file'[g] = file[g]
    BY <1>1 DEF DeletePendingFile, Unconfirmed, TypeOK
  <1>5. \A g \in Files : file'[g] # None => file'[g] = file[g]
    BY <1>1 DEF DeletePendingFile, TypeOK
  <1>6. LinksMatch' /\ StoredWasDeclared'
    BY <1>4, <1>5 DEF DeletePendingFile, LinksMatch, StoredWasDeclared, TypeOK, AssetRow
  <1>7. OffersAreInStock' /\ HoldersAgreed'
    BY AssetsUntouched DEF DeletePendingFile
  <1> QED BY <1>2, <1>3, <1>6, <1>7

LEMMA MarkStoredKeeps ==
  ASSUME IInv, NEW p \in Requests, MarkStored(p)
  PROVE  IInv'
  <1> USE DEF IInv
  <1>1. confirm[p].file \in Files /\ confirm[p].head \in Declared
    BY Carries DEF MarkStored, VerdictsAreTrue
  <1> DEFINE f == confirm[p].file
             row == [file[f] EXCEPT !.status = "stored", !.etag = confirm[p].head]
  <1>2. ASSUME Unconfirmed(f) PROVE row \in FileRow /\ row.etag \in Declared
    <2>1. file[f] \in FileRow
      BY <1>1, <1>2 DEF Unconfirmed, TypeOK
    <2>2. confirm[p].head \in Contents
      BY <1>1
    <2> QED BY <1>1, <2>1, <2>2 DEF FileRow
  <1>3. /\ UNCHANGED <<asset, offer, object, open>> /\ confirm' = [confirm EXCEPT ![p] = Idle]
        /\ file' = IF Unconfirmed(f) THEN [file EXCEPT ![f] = row] ELSE file
    BY DEF MarkStored, End
  <1> HIDE DEF row
  <1>4. TypeOK'
    BY <1>1, <1>2, <1>3 DEF TypeOK
  <1>5. VerdictsAreTrue'
    BY <1>3 DEF VerdictsAreTrue, TypeOK, Idle
  <1>6. StoredWasDeclared'
    BY <1>1, <1>2, <1>3 DEF StoredWasDeclared, TypeOK
  <1>7. LinksMatch'
    BY <1>1, <1>3 DEF LinksMatch, TypeOK, AssetRow, Unconfirmed
  <1>8. OffersAreInStock' /\ HoldersAgreed'
    BY <1>3, AssetsUntouched
  <1> QED BY <1>4, <1>5, <1>6, <1>7, <1>8

LEMMA FailKeeps ==
  ASSUME IInv, NEW p \in Requests, Fail(p)
  PROVE  IInv'
  <1>1. TypeOK' /\ VerdictsAreTrue'
    BY DEF IInv, TypeOK, VerdictsAreTrue, Fail, End, Idle
  <1> QED BY <1>1, FilesUntouched DEF Fail

LEMMA LinkFileKeeps ==
  ASSUME IInv, NEW f \in Files, LinkFile(f)
  PROVE  IInv'
  <1> USE DEF IInv
  <1>1. PICK chosen \in SUBSET Items :
          /\ \A a \in chosen : Linkable(a, f)
          /\ asset' = [a \in Items |->
                 IF a \in chosen THEN [asset[a] EXCEPT !.file = f] ELSE asset[a]]
    BY DEF LinkFile
  <1>2. file[f] # None /\ file[f].status = "stored" /\ UNCHANGED <<offer, uploads>>
    BY DEF LinkFile
  <1>3. \A a \in chosen : /\ asset[a] # None /\ asset[a] \in AssetRow
                          /\ [asset[a] EXCEPT !.file = f] \in AssetRow
                          /\ asset[a].ref = file[f].ref
    BY <1>1 DEF Linkable, Live, TypeOK, AssetRow
  <1>4. TypeOK'
    BY <1>1, <1>2, <1>3 DEF TypeOK, uploads
  <1>5. \A a \in Items : /\ asset'[a] = None <=> asset[a] = None
                         /\ asset'[a] # None => /\ asset'[a].status = asset[a].status
                                                /\ asset'[a].holder = asset[a].holder
                                                /\ asset'[a].ref = asset[a].ref
                                                /\ asset'[a].file = IF a \in chosen THEN f
                                                                    ELSE asset[a].file
    BY <1>1, <1>3 DEF AssetRow
  <1>6. OffersAreInStock'
    BY <1>2, <1>5 DEF OffersAreInStock, TypeOK, OfferRow
  <1>7. HoldersAgreed'
    BY <1>2, <1>5 DEF HoldersAgreed
  <1>8. LinksMatch'
    <2> SUFFICES ASSUME NEW a \in Items, asset'[a] # None, asset'[a].file # None
                 PROVE  /\ file[asset'[a].file] # None
                        /\ file[asset'[a].file].status = "stored"
                        /\ file[asset'[a].file].ref = asset'[a].ref
      BY <1>2 DEF LinksMatch, uploads
    <2>1. CASE a \in chosen
      BY <1>2, <1>3, <1>5, <2>1
    <2>2. CASE a \notin chosen
      BY <1>5, <2>2 DEF LinksMatch
    <2> QED BY <2>1, <2>2
  <1>9. StoredWasDeclared' /\ VerdictsAreTrue'
    BY <1>2 DEF StoredWasDeclared, VerdictsAreTrue, uploads
  <1> QED BY <1>4, <1>6, <1>7, <1>8, <1>9

-----------------------------------------------------------------------------
(* The theorems *)

THEOREM Inductive == IInv /\ [Next]_vars => IInv'
  <1> SUFFICES ASSUME IInv, [Next]_vars PROVE IInv'
    OBVIOUS
  <1>1. ASSUME NEW a \in Items, Register(a) \/ Dispose(a) \/ EditRef(a)
        PROVE  IInv'
    BY <1>1, RegisterKeeps, DisposeKeeps, EditRefKeeps
  <1>2. ASSUME NEW a \in Items, NEW rule \in Transitions, ApplyTransition(a, rule)
        PROVE  IInv'
    BY <1>2, ApplyTransitionKeeps
  <1>3. ASSUME NEW a \in Items, NEW o \in Offers, NEW u \in Users,
               ImportAssigned(a, o, u) \/ CreateAssignment(a, o, u)
        PROVE  IInv'
    BY <1>3, ImportAssignedKeeps, CreateAssignmentKeeps
  <1>4. ASSUME NEW o \in Offers, CancelAssignment(o)
        PROVE  IInv'
    BY <1>4, CancelAssignmentKeeps
  <1>5. ASSUME NEW o \in Offers, NEW outcome \in Answers, AnswerAssignment(o, outcome)
        PROVE  IInv'
    BY <1>5, AnswerAssignmentKeeps
  <1>6. ASSUME NEW f \in Files, Upload(f) \/ Expire(f) \/ LinkFile(f)
        PROVE  IInv'
    BY <1>6, BrowserKeeps, LinkFileKeeps
  <1>7. ASSUME NEW f \in Files, NEW ref \in Refs, MintFile(f, ref)
        PROVE  IInv'
    BY <1>7, MintFileKeeps
  <1>8. ASSUME NEW p \in Requests, NEW f \in Files, ReadFile(p, f)
        PROVE  IInv'
    BY <1>8, ReadFileKeeps
  <1>9. ASSUME NEW p \in Requests, HeadObject(p) \/ DiscardObject(p) \/ DeletePendingFile(p)
                                   \/ MarkStored(p) \/ Fail(p)
        PROVE  IInv'
    BY <1>9, HeadObjectKeeps, DiscardObjectKeeps, DeletePendingFileKeeps, MarkStoredKeeps, FailKeeps
  <1>10. CASE UNCHANGED vars
    BY <1>10 DEF vars, IInv, TypeOK, OffersAreInStock, HoldersAgreed, LinksMatch,
         StoredWasDeclared, VerdictsAreTrue
  <1> QED BY <1>1, <1>2, <1>3, <1>4, <1>5, <1>6, <1>7, <1>8, <1>9, <1>10 DEF Next

THEOREM Invariance == Spec => []IInv
  BY Initially, Inductive, PTL DEF Spec

\* The variables keep their types; a confirmation carries what its step needs.
THEOREM TypeCorrect == Spec => []TypeOK
  BY Invariance, PTL DEF IInv

\* An offer waits only on an asset in stock, and alone: the branch me.repo.ts
\* calls unreachable is.
THEOREM OfferedInStock == Spec => []OffersAreInStock
  BY Invariance, PTL DEF IInv

\* No transition, cancellation or import leaves a holder who never agreed
\* (transitions.repo.ts, me.repo.ts).
THEOREM AgreedToHold == Spec => []HoldersAgreed
  BY Invariance, PTL DEF IInv

\* An asset's invoice file is a confirmed one of its own reference, whatever
\* edits, confirmations and discards race (invoices.repo.ts, edit.repo.ts).
THEOREM FilesMatch == Spec => []LinksMatch
  BY Invariance, PTL DEF IInv

\* Stored means an upload that was what was declared (invoices.routes.ts).
THEOREM StoredIsDeclared == Spec => []StoredWasDeclared
  BY Invariance, PTL DEF IInv

\* An answered offer and a stored file are never written again (me.repo.ts,
\* assignments.repo.ts, invoices.repo.ts).
THEOREM NeverAnsweredTwice == Spec => AnswersAreFinal
  <1> DEFINE Kept == /\ \A o \in Offers : offer[o] # None /\ offer[o].status # "pending"
                                         => offer'[o] = offer[o]
                     /\ \A f \in Files : file[f] # None /\ file[f].status = "stored"
                                        => file'[f] = file[f]
  <1>1. IInv /\ [Next]_vars => Kept
    <2> SUFFICES ASSUME IInv, [Next]_vars PROVE Kept
      OBVIOUS
    <2> USE DEF IInv, TypeOK
    <2>1. CASE UNCHANGED <<offer, file>>
      BY <2>1
    <2>2. ASSUME NEW a \in Items, Register(a) \/ Dispose(a) \/ EditRef(a)
          PROVE  UNCHANGED <<offer, file>>
      BY <2>2 DEF Register, Dispose, EditRef, uploads
    <2>3. ASSUME NEW a \in Items, NEW rule \in Transitions, ApplyTransition(a, rule)
          PROVE  UNCHANGED <<offer, file>>
      BY <2>3 DEF ApplyTransition, uploads
    <2>4. ASSUME NEW a \in Items, NEW o \in Offers, NEW u \in Users,
                 ImportAssigned(a, o, u) \/ CreateAssignment(a, o, u)
          PROVE  Kept
      BY <2>4 DEF ImportAssigned, CreateAssignment, uploads
    <2>5. ASSUME NEW o \in Offers, CancelAssignment(o)
          PROVE  Kept
      BY <2>5 DEF CancelAssignment, StillPending, uploads
    <2>6. ASSUME NEW o \in Offers, NEW outcome \in Answers, AnswerAssignment(o, outcome)
          PROVE  Kept
      BY <2>6 DEF AnswerAssignment, StillPending, uploads
    <2>7. ASSUME NEW f \in Files, Upload(f) \/ Expire(f) \/ LinkFile(f)
          PROVE  UNCHANGED <<offer, file>>
      BY <2>7 DEF Upload, Expire, LinkFile, uploads
    <2>8. ASSUME NEW f \in Files, NEW ref \in Refs, MintFile(f, ref)
          PROVE  Kept
      BY <2>8 DEF MintFile
    <2>9. ASSUME NEW p \in Requests, NEW f \in Files, ReadFile(p, f)
          PROVE  UNCHANGED <<offer, file>>
      BY <2>9 DEF ReadFile
    <2>10. ASSUME NEW p \in Requests, HeadObject(p) \/ DiscardObject(p) \/ Fail(p)
           PROVE  UNCHANGED <<offer, file>>
      BY <2>10 DEF HeadObject, DiscardObject, Fail
    <2>11. ASSUME NEW p \in Requests, DeletePendingFile(p) \/ MarkStored(p)
           PROVE  Kept
      BY <2>11, Carries DEF DeletePendingFile, MarkStored, Unconfirmed
    <2>12. CASE UNCHANGED vars
      BY <2>1, <2>12 DEF vars
    <2> QED BY <2>1, <2>2, <2>3, <2>4, <2>5, <2>6, <2>7, <2>8, <2>9, <2>10, <2>11, <2>12 DEF Next
  <1>2. IInv /\ [Next]_vars => [Kept]_vars
    BY <1>1
  <1> QED BY <1>2, Invariance, PTL DEF Spec, AnswersAreFinal
=============================================================================
