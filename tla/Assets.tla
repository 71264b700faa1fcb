------------------------------- MODULE Assets -------------------------------
(* The assets of inventory-api, who holds them, and their invoice files.      *)
(*                                                                            *)
(* Every write to an asset is a transaction that takes the asset's row lock   *)
(* and reads the row again under it: one action here. Confirming an uploaded  *)
(* file is not: the row is read, the bucket is asked, and what was found is   *)
(* acted on, one await after the other. Dates and prices are FiscalYears'.    *)
EXTENDS Naturals, FiniteSets

CONSTANTS
    Items,      \* the asset rows that can be inserted
    Offers,     \* the assignment rows that can be inserted
    Users,      \* assignees
    Files,      \* the invoice files that can be minted
    Refs,       \* invoice references
    Contents,   \* what a browser can upload, told apart by its ETag
    Declared,   \* the contents that are what the mint declared, and allowed
    Requests,   \* confirmations in flight
    None        \* no row, no holder, no file, no object

ASSUME DeclaredAssumption == Declared \subseteq Contents
ASSUME NoneAssumption == None \notin Users \cup Files \cup Refs \cup Contents

VARIABLES
    asset,      \* item -> [status, holder, ref, file] or None
    offer,      \* offer -> [item, to, status] or None
    file,       \* file -> [ref, status, etag] or None
    object,     \* file -> the content at its key in the bucket, or None
    open,       \* files whose presigned POST is still valid
    confirm     \* request -> [at, file, head]: where its confirmation stands

vars == <<asset, offer, file, object, open, confirm>>
uploads == <<file, object, open, confirm>>

Status == {"ordered", "in_stock", "assigned", "in_repair", "lost", "disposed"}
Answers == {"confirmed", "declined"}
AssetRow == [status : Status, holder : Users \cup {None}, ref : Refs \cup {None},
             file : Files \cup {None}]
OfferRow == [item : Items, to : Users, status : {"pending", "cancelled"} \cup Answers]
FileRow == [ref : Refs, status : {"pending", "stored"}, etag : Contents \cup {None}]

ASSUME RowsAssumption == None \notin AssetRow \cup OfferRow \cup FileRow

Live(a) == asset[a] # None /\ asset[a].status # "disposed"
Pending(a) == \E o \in Offers : offer[o] # None /\ offer[o].item = a
                                /\ offer[o].status = "pending"

Idle == [at |-> "idle", file |-> None, head |-> None]

Init ==
    /\ asset = [a \in Items |-> None]
    /\ offer = [o \in Offers |-> None]
    /\ file = [f \in Files |-> None]
    /\ object = [f \in Files |-> None]
    /\ open = {}
    /\ confirm = [p \in Requests |-> Idle]

-----------------------------------------------------------------------------
(* Assets *)

NewAsset(status, holder, ref) ==
    [status |-> status, holder |-> holder, ref |-> ref, file |-> None]

Register(a) ==
    /\ asset[a] = None
    /\ \E status \in {"ordered", "in_stock"}, ref \in Refs \cup {None} :
        asset' = [asset EXCEPT ![a] = NewAsset(status, None, ref)]
    /\ UNCHANGED <<offer, uploads>>

\* The legacy import: an assigned asset comes with an offer already confirmed.
ImportAssigned(a, o, u) ==
    /\ asset[a] = None /\ offer[o] = None
    /\ asset' = [asset EXCEPT ![a] = NewAsset("assigned", u, None)]
    /\ offer' = [offer EXCEPT ![o] = [item |-> a, to |-> u, status |-> "confirmed"]]
    /\ UNCHANGED uploads

\* TRANSITIONS: where each may start, where it lands with a holder and without
\* one, whether it clears the holder, whether a pending offer blocks it.
Rule(from, held, free, clears, blocked) ==
    [from |-> from, held |-> held, free |-> free, clears |-> clears, blocked |-> blocked]

Transitions ==
    { Rule({"ordered"}, "in_stock", "in_stock", FALSE, FALSE),
      Rule({"assigned"}, "in_stock", "in_stock", TRUE, FALSE),
      Rule({"in_stock", "assigned"}, "in_repair", "in_repair", FALSE, TRUE),
      Rule({"in_repair"}, "assigned", "in_stock", FALSE, FALSE),
      Rule({"in_stock", "assigned", "in_repair"}, "lost", "lost", TRUE, TRUE),
      Rule({"lost"}, "in_stock", "in_stock", FALSE, FALSE) }

\* Faulty variant: no transition minds a pending offer.
BlockedByNothing(a, rule) == FALSE

Blocked(a, rule) == rule.blocked /\ Pending(a)

\* Faulty variant: a returned or lost asset keeps its holder.
ApplyKeepingHolder(a, rule) ==
    /\ Live(a) /\ asset[a].status \in rule.from
    /\ ~Blocked(a, rule)
    /\ asset' = [asset EXCEPT ![a].status =
           IF asset[a].holder = None THEN rule.free ELSE rule.held]
    /\ UNCHANGED <<offer, uploads>>

ApplyTransition(a, rule) ==
    /\ Live(a) /\ asset[a].status \in rule.from
    /\ ~Blocked(a, rule)
    /\ asset' = [asset EXCEPT ![a] =
           [@ EXCEPT !.status = IF asset[a].holder = None THEN rule.free ELSE rule.held,
                     !.holder = IF rule.clears THEN None ELSE asset[a].holder]]
    /\ UNCHANGED <<offer, uploads>>

Dispose(a) ==
    /\ Live(a) /\ ~Pending(a)
    /\ asset' = [asset EXCEPT ![a] = [@ EXCEPT !.status = "disposed", !.holder = None]]
    /\ UNCHANGED <<offer, uploads>>

\* Faulty variant: the new reference keeps the old reference's file.
UnlinkedNot(row, ref) == [row EXCEPT !.ref = ref]

\* A changed reference takes the invoice file off the asset.
Unlinked(row, ref) == [row EXCEPT !.ref = ref, !.file = None]

EditRef(a) ==
    /\ Live(a)
    /\ \E ref \in (Refs \cup {None}) \ {asset[a].ref} :
        asset' = [asset EXCEPT ![a] = Unlinked(@, ref)]
    /\ UNCHANGED <<offer, uploads>>

-----------------------------------------------------------------------------
(* Assignments *)

CreateAssignment(a, o, u) ==
    /\ offer[o] = None
    /\ Live(a) /\ asset[a].status = "in_stock" /\ ~Pending(a)
    /\ offer' = [offer EXCEPT ![o] = [item |-> a, to |-> u, status |-> "pending"]]
    /\ UNCHANGED <<asset, uploads>>

\* Faulty variant: a cancellation or an answer is written whatever the offer says.
StillPendingOrNot(o) == TRUE

\* The compare-and-set every answer and cancellation goes through.
StillPending(o) == offer[o].status = "pending"

CancelAssignment(o) ==
    /\ offer[o] # None /\ StillPending(o) /\ Live(offer[o].item)
    /\ offer' = [offer EXCEPT ![o].status = "cancelled"]
    /\ UNCHANGED <<asset, uploads>>

\* A confirmation that can no longer hand the asset over is rolled back.
AnswerAssignment(o, outcome) ==
    /\ offer[o] # None /\ StillPending(o)
    /\ offer' = [offer EXCEPT ![o].status = outcome]
    /\ \/ outcome = "declined" /\ UNCHANGED asset
       \/ /\ outcome = "confirmed" /\ asset[offer[o].item].status = "in_stock"
          /\ asset' = [asset EXCEPT ![offer[o].item] =
                 [@ EXCEPT !.status = "assigned", !.holder = offer[o].to]]
    /\ UNCHANGED uploads

-----------------------------------------------------------------------------
(* Invoice files *)

MintFile(f, ref) ==
    /\ file[f] = None /\ f \notin open /\ object[f] = None
    /\ \A p \in Requests : confirm[p].file # f
    /\ file' = [file EXCEPT ![f] = [ref |-> ref, status |-> "pending", etag |-> None]]
    /\ open' = open \cup {f}
    /\ UNCHANGED <<asset, offer, object, confirm>>

\* The browser posts to the key, as often as it likes while the policy is valid.
Upload(f) ==
    /\ f \in open
    /\ \E c \in Contents : object' = [object EXCEPT ![f] = c]
    /\ UNCHANGED <<asset, offer, file, open, confirm>>

Expire(f) ==
    /\ f \in open
    /\ open' = open \ {f}
    /\ UNCHANGED <<asset, offer, file, object, confirm>>

Go(p, at) == confirm' = [confirm EXCEPT ![p].at = at]
End(p) == confirm' = [confirm EXCEPT ![p] = Idle]

ReadFile(p, f) ==
    /\ confirm[p].at = "idle"
    /\ file[f] # None /\ file[f].status = "pending"
    /\ confirm' = [confirm EXCEPT ![p] = [at |-> "head", file |-> f, head |-> None]]
    /\ UNCHANGED <<asset, offer, file, object, open>>

\* Faulty variant: any object found at the key is good.
AcceptedAnyway(c) == TRUE

\* Nothing there yet ends the request; what is there is accepted or discarded.
Accepted(c) == c \in Declared

HeadObject(p) ==
    LET c == object[confirm[p].file] IN
    /\ confirm[p].at = "head"
    /\ confirm' = [confirm EXCEPT ![p] =
           IF c = None THEN Idle
           ELSE [@ EXCEPT !.at = IF Accepted(c) THEN "store" ELSE "discard", !.head = c]]
    /\ UNCHANGED <<asset, offer, file, object, open>>

\* The object first (or not, if the bucket fails), then the row.
DiscardObject(p) ==
    /\ confirm[p].at = "discard"
    /\ object' \in {object, [object EXCEPT ![confirm[p].file] = None]}
    /\ Go(p, "row")
    /\ UNCHANGED <<asset, offer, file, open>>

Unconfirmed(f) == file[f] # None /\ file[f].status = "pending"

DeletePendingFile(p) ==
    /\ confirm[p].at = "row"
    /\ file' = IF Unconfirmed(confirm[p].file)
               THEN [file EXCEPT ![confirm[p].file] = None] ELSE file
    /\ End(p)
    /\ UNCHANGED <<asset, offer, object, open>>

MarkStored(p) ==
    /\ confirm[p].at = "store"
    /\ file' = IF Unconfirmed(confirm[p].file)
               THEN [file EXCEPT ![confirm[p].file] =
                        [@ EXCEPT !.status = "stored", !.etag = confirm[p].head]]
               ELSE file
    /\ End(p)
    /\ UNCHANGED <<asset, offer, object, open>>

\* The process dies, or a call the route does not catch fails.
Fail(p) ==
    /\ confirm[p].at # "idle"
    /\ End(p)
    /\ UNCHANGED <<asset, offer, file, object, open>>

\* linkFile: all the assets or none; a replaced file keeps its row and object.
Linkable(a, f) == Live(a) /\ asset[a].ref = file[f].ref

LinkFile(f) ==
    /\ file[f] # None /\ file[f].status = "stored"
    /\ \E chosen \in SUBSET Items \ {{}} :
        /\ \A a \in chosen : Linkable(a, f)
        /\ asset' = [a \in Items |->
               IF a \in chosen THEN [asset[a] EXCEPT !.file = f] ELSE asset[a]]
    /\ UNCHANGED <<offer, uploads>>

Next ==
    \/ \E a \in Items :
        \/ Register(a) \/ Dispose(a) \/ EditRef(a)
        \/ \E rule \in Transitions : ApplyTransition(a, rule)
        \/ \E o \in Offers, u \in Users : ImportAssigned(a, o, u) \/ CreateAssignment(a, o, u)
    \/ \E o \in Offers :
        CancelAssignment(o) \/ \E outcome \in Answers : AnswerAssignment(o, outcome)
    \/ \E f \in Files :
        \/ Upload(f) \/ Expire(f) \/ LinkFile(f)
        \/ \E ref \in Refs : MintFile(f, ref)
        \/ \E p \in Requests : ReadFile(p, f)
    \/ \E p \in Requests :
        \/ HeadObject(p) \/ DiscardObject(p) \/ DeletePendingFile(p)
        \/ MarkStored(p) \/ Fail(p)

Spec == Init /\ [][Next]_vars
-----------------------------------------------------------------------------
(* Properties *)

\* Types, and what a confirmation carries at each of its steps.
TypeOK ==
    /\ asset \in [Items -> AssetRow \cup {None}]
    /\ offer \in [Offers -> OfferRow \cup {None}]
    /\ file \in [Files -> FileRow \cup {None}]
    /\ object \in [Files -> Contents \cup {None}]
    /\ open \subseteq Files
    /\ confirm \in [Requests -> {Idle}
           \cup [at : {"head"}, file : Files, head : {None}]
           \cup [at : {"store", "discard", "row"}, file : Files, head : Contents]]

\* An asset waiting for an answer is in stock, free and offered once: the
\* "unreachable" branch of answerAssignment is unreachable.
OffersAreInStock ==
    \A o \in Offers : offer[o] # None /\ offer[o].status = "pending" =>
        /\ asset[offer[o].item] # None
        /\ asset[offer[o].item].status = "in_stock"
        /\ asset[offer[o].item].holder = None
        /\ \A other \in Offers \ {o} :
               offer[other] # None /\ offer[other].item = offer[o].item
               => offer[other].status # "pending"

\* Whoever holds an asset was offered that asset and agreed to it; the asset
\* is then assigned or in repair, and an assigned asset is held.
HoldersAgreed ==
    \A a \in Items : asset[a] # None =>
        /\ asset[a].status = "assigned" => asset[a].holder # None
        /\ asset[a].holder # None =>
               /\ asset[a].status \in {"assigned", "in_repair"}
               /\ \E o \in Offers : offer[o] =
                      [item |-> a, to |-> asset[a].holder, status |-> "confirmed"]

\* The invoice file an asset carries exists, was confirmed, and was uploaded
\* for the reference the asset carries now.
LinksMatch ==
    \A a \in Items : asset[a] # None /\ asset[a].file # None =>
        /\ file[asset[a].file] # None
        /\ file[asset[a].file].status = "stored"
        /\ file[asset[a].file].ref = asset[a].ref

\* A stored file keeps the ETag of an upload that was what the mint declared,
\* whatever was posted to its key before, between or after the two requests.
StoredWasDeclared ==
    \A f \in Files : file[f] # None /\ file[f].status = "stored"
                      => file[f].etag \in Declared

\* What was answered or cancelled stays so, whoever else acts on the offer, and
\* a stored file is never undone or stored again with another ETag.
AnswersAreFinal ==
    [][/\ \A o \in Offers : offer[o] # None /\ offer[o].status # "pending"
                             => offer'[o] = offer[o]
       /\ \A f \in Files : file[f] # None /\ file[f].status = "stored"
                            => file'[f] = file[f]]_vars

-----------------------------------------------------------------------------
(* The inductive invariant (Assets_proofs) *)

\* A confirmation marks a file stored only for an upload it found good.
VerdictsAreTrue == \A p \in Requests : confirm[p].at = "store" => confirm[p].head \in Declared

IInv ==
    /\ TypeOK /\ OffersAreInStock /\ HoldersAgreed /\ LinksMatch /\ StoredWasDeclared
    /\ VerdictsAreTrue
=============================================================================
