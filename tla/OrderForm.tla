------------------------------ MODULE OrderForm ------------------------------
(***************************************************************************)
(* Order forms: Normalize (internal/domain/order_normalization.go) and the *)
(* price of a form (internal/domain/order_pricing.go).                     *)
(*                                                                         *)
(* A form is what a client submits.  greens, scallion and pepper are only  *)
(* validated, against one list of codes: taste stands for the three.  The  *)
(* note is its length in bytes once trimmed.  None is a JSON null.         *)
(***************************************************************************)
EXTENDS Integers, Sequences

CONSTANTS
    None,       \* an absent value
    Rejected,   \* Normalize returns an error
    MaxNote     \* MaxOrderNoteBytes

ASSUME FormAssumption == MaxNote \in Nat /\ None \notin Int

\* Codes of internal/domain/order.go.
RiceSheet == 1      RiceVermicelli == 2    YiNoodle == 3    Rice == 4
Small == 1          Medium == 2            Large == 3       Custom == 4
Normal == 1
DineIn == 1         Takeout == 2
Container == 1      Bag == 2
Together == 1       Separated == 2

StapleCode   == {RiceSheet, RiceVermicelli, YiNoodle, Rice}
SizeCode     == {Small, Medium, Large, Custom}
AdjustCode   == 1..4
DiningCode   == {DineIn, Takeout}
PackCode     == {Container, Bag}
MethodCode   == {Together, Separated}
MeatCode     == 1..6

\* What a request can carry, once it is decoded.
Form ==
    [staple : Int \cup {None}, size : Int, price : Int \cup {None}, amount : Int,
     taste : Int, extra : Int, eggs : Int, tofu : Int, meats : Seq(Int), dining : Int,
     pack : Int \cup {None}, method : Int \cup {None}, note : Nat]

SeqRange(s) == {s[i] : i \in DOMAIN s}

\* Mutant: the length of the note is not checked.
ValidAnyNote(f) ==
    /\ f.extra >= 0 /\ f.eggs >= 0 /\ f.tofu >= 0
    /\ f.staple \in StapleCode \cup {None} /\ f.size \in SizeCode
    /\ f.amount \in AdjustCode /\ f.taste \in AdjustCode
    /\ f.dining \in DiningCode
    /\ f.pack \in PackCode \cup {None} /\ f.method \in MethodCode \cup {None}
    /\ SeqRange(f.meats) \subseteq MeatCode

Valid(f) == ValidAnyNote(f) /\ f.note <= MaxNote

\* Rice is not sold small.
Size(f) == IF f.staple = Rice /\ f.size = Small THEN Medium ELSE f.size

\* Mutant: the size as it was submitted decides on the meats.
MeatSizeSubmitted(f) == f.size
MeatSize(f) == Size(f)

VisibleMeats(size) == IF size = Small THEN 1..5 ELSE 1..6

Kept(m, chosen) == IF m \in chosen THEN <<m>> ELSE <<>>

\* In menu order and without repetition.
Meats(codes, size) ==
    LET chosen == SeqRange(codes) \cap VisibleMeats(size)
    IN  Kept(1, chosen) \o Kept(2, chosen) \o Kept(3, chosen)
            \o Kept(4, chosen) \o Kept(5, chosen) \o Kept(6, chosen)

DefaultMethod(f) == IF f.staple = Rice THEN Separated ELSE Together

Or(value, default) == IF value = None THEN default ELSE value

\* Mutant: packaging is kept when the order is eaten in.
PackAlways(f) == Or(f.pack, Container)
Pack(f)   == IF f.dining = DineIn THEN None ELSE Or(f.pack, Container)
Method(f) == IF f.dining = DineIn THEN None ELSE Or(f.method, DefaultMethod(f))

CustomPrice(f) == IF f.size = Custom THEN f.price ELSE None
\* Mutant: a custom price of nothing is accepted.
CustomPricedOrFree(f) == f.size = Custom => f.price # None /\ f.price >= 0
CustomPriced(f) == f.size = Custom => f.price # None /\ f.price > 0

Amount(f) == IF f.staple = None THEN Normal ELSE f.amount

Extra(f) == IF f.staple = YiNoodle THEN f.extra ELSE 0

Normalized(f) ==
    [f EXCEPT !.size = Size(f),
              !.price = CustomPrice(f),
              !.amount = Amount(f),
              !.extra = Extra(f),
              !.meats = Meats(f.meats, MeatSize(f)),
              !.pack = Pack(f),
              !.method = Method(f)]

Empty(f) == f.staple = None /\ f.meats = <<>>

\* Mutant: the check for an empty order looks at the form as submitted.
NormalizeEmptyFirst(f) ==
    IF Valid(f) /\ CustomPriced(f) /\ ~Empty(f) THEN Normalized(f) ELSE Rejected

\* Kidneys are taken from a small order before it is checked for being empty.
Normalize(f) ==
    IF Valid(f) /\ CustomPriced(f) /\ ~Empty(Normalized(f)) THEN Normalized(f) ELSE Rejected

-----------------------------------------------------------------------------
(* Prices, in cents *)

PriceBySize(f, small, medium, large) ==
    CASE f.size = Small -> small [] f.size = Medium -> medium [] f.size = Large -> large
      [] OTHER -> 0

BasePrice(f) ==
    CASE f.size = Custom ->
            IF f.price = None THEN 0 ELSE IF f.price < 0 THEN 0 ELSE f.price
      [] f.size # Custom /\ f.staple = Rice -> IF f.size = Large THEN 2000 ELSE 1500
      [] f.size # Custom /\ f.staple = YiNoodle -> PriceBySize(f, 1100, 1300, 1600)
      [] OTHER -> PriceBySize(f, 1000, 1200, 1500)

Extras(f) == IF f.staple = YiNoodle THEN f.extra * 300 ELSE 0

TotalPrice(f) ==
    BasePrice(f) + Extras(f) + f.eggs * 200 + f.tofu * 200
        + (IF f.dining = Takeout /\ f.pack = Container THEN 50 ELSE 0)
=============================================================================
