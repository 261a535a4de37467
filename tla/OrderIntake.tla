----------------------------- MODULE OrderIntake -----------------------------
(***************************************************************************)
(* What happens to a form on its way to the clients: it is normalized when *)
(* an order is created or edited, and the orders of a batch are published  *)
(* in frames, publishUpserts of internal/service/v1/order.go.  The         *)
(* transaction in between is the subject of Orders.                        *)
(***************************************************************************)
EXTENDS OrderForm, FiniteSetsExt

CONSTANTS
    Draft,        \* forms a client may begin with
    Choice,       \* what a client may enter in each field of a form
    MaxQuantity,  \* bound on the orders of a batch
    BatchSize,    \* maxOrderUpsertBatchSize
    FrameBytes,   \* maxOrderUpsertFrameBytes
    Wrapper,      \* bytes of a frame without its orders
    OrderBytes,   \* bytes of an order without its note
    Expansion     \* most bytes that one byte of a note takes in JSON

\* What clients may enter.
Entries ==
    [staple : SUBSET (Int \cup {None}), size : SUBSET Int, price : SUBSET (Int \cup {None}),
     amount : SUBSET Int, taste : SUBSET Int, extra : SUBSET Int, eggs : SUBSET Int,
     tofu : SUBSET Int, meats : SUBSET Seq(Int), dining : SUBSET Int,
     pack : SUBSET (Int \cup {None}), method : SUBSET (Int \cup {None}), note : SUBSET Nat]

ASSUME IntakeAssumption ==
    /\ Draft \subseteq Form /\ Choice \in Entries
    /\ MaxQuantity \in Nat /\ BatchSize \in Nat \ {0}
    /\ FrameBytes \in Nat /\ Wrapper \in Nat /\ OrderBytes \in Nat
    /\ Expansion \in Nat \ {0}
    /\ Wrapper + OrderBytes + MaxNote * Expansion <= FrameBytes

VARIABLES
    form,      \* the form of the order, as it was stored last
    quantity,  \* orders of the batch being published, 0 if there is none
    bytes,     \* encoded size of one of them; they differ in their numbers only
    start,     \* the next of them to publish
    frames     \* history: first and last order of each frame of the batch

vars == <<form, quantity, bytes, start, frames>>

Init ==
    /\ \E f \in Draft : form = Normalize(f) /\ form # Rejected
    /\ quantity = 0
    /\ bytes = 0
    /\ start = 1
    /\ frames = <<>>

Publishing == start <= quantity

Changed(f, k) == {[f EXCEPT ![k] = v] : v \in Choice[k]}

\* A client changes one field of a form, or its size and price.
Entered(f) ==
    (UNION {Changed(f, k) : k \in DOMAIN f})
        \cup (UNION {Changed(g, "price") : g \in Changed(f, "size")})

Submit(f) ==
    /\ quantity = 0
    /\ Normalize(f) # Rejected
    /\ form' = Normalize(f)
    /\ UNCHANGED <<quantity, bytes, start, frames>>

\* A client changes what is stored and submits the whole form.
EditForm == \E f \in Entered(form) : Submit(f)

\* The orders of a batch share their form; validation_failed when not positive.
CreateBatch ==
    /\ quantity = 0
    /\ quantity' \in 1..MaxQuantity
    /\ \E e \in 1..Expansion : bytes' = OrderBytes + form.note * e
    /\ UNCHANGED <<form, start, frames>>

\* orderUpsertManyFrameSize: the orders are separated by commas.
FrameSize(n) == Wrapper + n * bytes + (n - 1)

\* The first order is always taken, another one if count and size allow it.
Fits(n) == n = 1 \/ (n <= BatchSize /\ FrameSize(n) <= FrameBytes)

\* One pass of the inner loop, which adds orders until one does not fit.
Taken == Max({n \in 1..(quantity - start + 1) : \A m \in 1..n : Fits(m)})

Publish(n) ==
    /\ frames' = Append(frames, <<start, start + n - 1>>)
    /\ start' = start + n
    /\ UNCHANGED <<form, quantity, bytes>>

\* A single order keeps the legacy event.
PublishSingle == Publishing /\ quantity = 1 /\ Publish(1)

\* Mutant: the order that did not fit is skipped.
PublishManySkipping ==
    /\ Publishing
    /\ quantity > 1
    /\ frames' = Append(frames, <<start, start + Taken - 1>>)
    /\ start' = start + Taken + 1
    /\ UNCHANGED <<form, quantity, bytes>>

PublishMany == Publishing /\ quantity > 1 /\ Publish(Taken)

Return ==
    /\ quantity > 0 /\ ~Publishing
    /\ quantity' = 0 /\ bytes' = 0 /\ start' = 1 /\ frames' = <<>>
    /\ UNCHANGED form

Next == EditForm \/ CreateBatch \/ PublishSingle \/ PublishMany \/ Return

Spec == Init /\ [][Next]_vars

-----------------------------------------------------------------------------
(* Correctness *)

(***************************************************************************)
(* Types; what is stored is a form, with every field in its range.         *)
(***************************************************************************)
TypeOK ==
    /\ Valid(form)
    /\ form.price \in Nat \cup {None}
    /\ quantity \in 0..MaxQuantity
    /\ start \in 1..(quantity + 1)
    /\ bytes \in Nat

(***************************************************************************)
(* A stored form says nothing it does not charge or cook: no field is left *)
(* that the staple, the size or the dining method make meaningless,        *)
(* whatever sequence of edits led to it, and it orders something.          *)
(***************************************************************************)
StoredFormIsClean ==
    /\ form.price # None <=> form.size = Custom
    /\ form.pack # None <=> form.dining = Takeout
    /\ form.method # None <=> form.dining = Takeout
    /\ form.extra > 0 => form.staple = YiNoodle
    /\ form.staple = Rice => form.size # Small
    /\ form.staple = None => form.amount = Normal /\ form.meats # <<>>
    /\ form.size = Small => 6 \notin SeqRange(form.meats)
    /\ \A i, j \in DOMAIN form.meats : i < j => form.meats[i] < form.meats[j]

(***************************************************************************)
(* A client that gets an order back and submits its form unchanged is      *)
(* accepted and changes nothing.                                           *)
(***************************************************************************)
ResubmitChangesNothing == Normalize(form) = form

(***************************************************************************)
(* An edit loses no meat that the size it ends up with offers: a small     *)
(* rice becomes a medium one, kidneys included.                            *)
(***************************************************************************)
MeatsKept ==
    quantity = 0 =>
        \A f \in Entered(form) :
            LET kept == Normalize(f) IN
            kept # Rejected =>
                \A m \in SeqRange(f.meats) \ SeqRange(kept.meats) : m = 6 /\ kept.size = Small

\* The price list: base price by staple and size, and what is added.
BaseOf == [r \in {"rice", "yi", "other"} |->
             CASE r = "rice" -> <<0, 1500, 2000>>
               [] r = "yi" -> <<1100, 1300, 1600>>
               [] r = "other" -> <<1000, 1200, 1500>>]

PriceList(f) ==
    LET base == IF f.price # None THEN f.price
                ELSE BaseOf[IF f.staple = Rice THEN "rice"
                            ELSE IF f.staple = YiNoodle THEN "yi" ELSE "other"][f.size]
    IN  base + 300 * f.extra + 200 * (f.eggs + f.tofu) + (IF f.pack = Container THEN 50 ELSE 0)

(***************************************************************************)
(* Nothing is free, and the total is the sum of the fields that are        *)
(* stored, without looking at the staple or the dining method again: after *)
(* normalization a field is there exactly if it is charged.                *)
(***************************************************************************)
PriceOfStoredForm == TotalPrice(form) = PriceList(form) /\ TotalPrice(form) > 0

(***************************************************************************)
(* Every order of a batch is in exactly one frame, in order, whatever size *)
(* and count it has ("an item must still be published rather than silently *)
(* dropped", service/v1/order.go:504).                                     *)
(***************************************************************************)
FramesCoverBatch ==
    LET covered(i) == {j \in DOMAIN frames : i \in frames[j][1]..frames[j][2]}
    IN  /\ \A i \in 1..(start - 1) : Cardinality(covered(i)) = 1
        /\ \A j \in DOMAIN frames :
              /\ frames[j][2] < start
              /\ j + 1 \in DOMAIN frames => frames[j + 1][1] = frames[j][2] + 1

(***************************************************************************)
(* No frame is larger than the budget or longer than the batch size ("one  *)
(* item always fits the frame budget", service/v1/order.go:501), and none  *)
(* could have taken the next order.                                        *)
(***************************************************************************)
FramesFitBudget ==
    \A j \in DOMAIN frames :
        LET n == frames[j][2] - frames[j][1] + 1
        IN  /\ n <= BatchSize
            /\ FrameSize(n) <= FrameBytes
            /\ j < Len(frames) => n = BatchSize \/ FrameSize(n + 1) > FrameBytes
=============================================================================
