----------------------------- MODULE IntakeProofs -----------------------------
(***************************************************************************)
(* Proofs about OrderForm and OrderIntake: what normalization makes of a   *)
(* form, and the frames of a batch, for any forms that clients enter, any  *)
(* bounds and any sizes.                                                   *)
(***************************************************************************)
EXTENDS OrderIntake, FiniteSetTheorems, TLAPS

-----------------------------------------------------------------------------
(* Meats *)

\* Codes up to n in menu order, none twice.
InMenuOrder(s, n) ==
    /\ s \in Seq(Int)
    /\ \A i \in 1..Len(s) : s[i] <= n
    /\ \A i, j \in 1..Len(s) : i < j => s[i] < s[j]

\* The range of a sequence, by its indices.
LEMMA RangeOf ==
  ASSUME NEW s \in Seq(Int), NEW x
  PROVE  x \in SeqRange(s) <=> \E i \in 1..Len(s) : x = s[i]
  BY DEF SeqRange

\* One pass of the loop of normalizeSelectedMeatCodes: the next code of the
\* menu is appended if it was chosen.
LEMMA NextMeat ==
  ASSUME NEW chosen, NEW n \in Nat, NEW m \in Nat, n < m, NEW s, InMenuOrder(s, n)
  PROVE  /\ InMenuOrder(s \o Kept(m, chosen), m)
         /\ SeqRange(s \o Kept(m, chosen)) = SeqRange(s) \cup (chosen \cap {m})
<1>1. /\ s \in Seq(Int) /\ \A i \in 1..Len(s) : s[i] <= n
      /\ \A i, j \in 1..Len(s) : i < j => s[i] < s[j]
  BY DEF InMenuOrder
<1>2. CASE m \notin chosen
  <2>1. s \o Kept(m, chosen) = s
    BY <1>1, <1>2 DEF Kept
  <2>2. chosen \cap {m} = {}
    BY <1>2
  <2>3. InMenuOrder(s, m)
    BY <1>1 DEF InMenuOrder
  <2> QED
    BY <2>1, <2>2, <2>3
<1>3. CASE m \in chosen
  <2>1. PICK u : u = s \o Kept(m, chosen)
    OBVIOUS
  <2>2. /\ u \in Seq(Int) /\ Len(u) = Len(s) + 1
        /\ \A i \in 1..Len(s) : u[i] = s[i]
        /\ u[Len(s) + 1] = m
    BY <1>1, <1>3, <2>1 DEF Kept
  <2>3. \A i \in 1..Len(u) : i \in 1..Len(s) \/ i = Len(s) + 1
    BY <1>1, <2>2
  <2>4. \A i \in 1..Len(s) : s[i] \in Int /\ u[i] < m
    BY <1>1, <2>2
  <2>5. InMenuOrder(u, m)
    <3>1. \A i \in 1..Len(u) : u[i] <= m
      BY <2>2, <2>3, <2>4
    <3>2. ASSUME NEW i \in 1..Len(u), NEW j \in 1..Len(u), i < j PROVE u[i] < u[j]
      <4>1. i \in 1..Len(s)
        BY <1>1, <2>2, <3>2
      <4> QED
        BY <1>1, <2>2, <2>3, <2>4, <3>2, <4>1
    <3> QED
      BY <2>2, <3>1, <3>2 DEF InMenuOrder
  <2>6. ASSUME NEW x PROVE x \in SeqRange(u) <=> x \in SeqRange(s) \/ x = m
    <3>1. /\ x \in SeqRange(u) <=> \E i \in 1..Len(u) : x = u[i]
          /\ x \in SeqRange(s) <=> \E i \in 1..Len(s) : x = s[i]
      BY <1>1, <2>2, RangeOf
    <3>2. x \in SeqRange(u) => x \in SeqRange(s) \/ x = m
      BY <2>2, <2>3, <3>1
    <3>3. Len(s) + 1 \in 1..Len(u) /\ \A i \in 1..Len(s) : i \in 1..Len(u)
      BY <1>1, <2>2
    <3> QED
      BY <2>2, <3>1, <3>2, <3>3
  <2>7. SeqRange(u) = SeqRange(s) \cup (chosen \cap {m})
    BY <1>3, <2>6
  <2> QED
    BY <2>1, <2>5, <2>7
<1> QED
  BY <1>2, <1>3

\* Normalized meats are those selected that the size offers, in menu order.
LEMMA MeatsOf ==
  ASSUME NEW codes, NEW size
  PROVE  /\ InMenuOrder(Meats(codes, size), 6)
         /\ SeqRange(Meats(codes, size)) = SeqRange(codes) \cap VisibleMeats(size)
<1> DEFINE chosen == SeqRange(codes) \cap VisibleMeats(size)
           upTo(s, n) == InMenuOrder(s, n) /\ SeqRange(s) = {x \in chosen : x <= n}
<1>1. chosen \subseteq 1..6
  BY DEF VisibleMeats
<1>2. Meats(codes, size) = Kept(1, chosen) \o Kept(2, chosen) \o Kept(3, chosen)
                             \o Kept(4, chosen) \o Kept(5, chosen) \o Kept(6, chosen)
  BY DEF Meats
<1> HIDE DEF chosen
<1>3. ASSUME NEW n \in 0..5, NEW m \in 1..6, m = n + 1, NEW s, upTo(s, n)
      PROVE  upTo(s \o Kept(m, chosen), m)
  <2>1. \A x \in chosen : x <= m <=> x <= n \/ x = m
    BY <1>1, <1>3
  <2>2. {x \in chosen : x <= m} = {x \in chosen : x <= n} \cup (chosen \cap {m})
    BY <2>1
  <2> QED
    BY <1>3, <2>2, NextMeat
<1>4. upTo(<<>>, 0)
  <2>1. InMenuOrder(<<>>, 0) /\ SeqRange(<<>>) = {}
    BY DEF InMenuOrder, SeqRange
  <2>2. \A x \in chosen : ~(x <= 0)
    BY <1>1
  <2> QED
    BY <2>1, <2>2
<1> HIDE DEF upTo
<1>5. \A s, t : /\ upTo(s, 0) => upTo(s \o Kept(1, chosen), 1)
                /\ upTo(s, 1) => upTo(s \o Kept(2, chosen), 2)
                /\ upTo(s, 2) => upTo(s \o Kept(3, chosen), 3)
                /\ upTo(s, 3) => upTo(s \o Kept(4, chosen), 4)
                /\ upTo(s, 4) => upTo(s \o Kept(5, chosen), 5)
                /\ upTo(s, 5) => upTo(s \o Kept(6, chosen), 6)
  BY <1>3
<1>6. <<>> \o Kept(1, chosen) = Kept(1, chosen)
  BY DEF Kept
<1>7. upTo(Meats(codes, size), 6)
  BY <1>2, <1>4, <1>5, <1>6, Zenon
<1> QED
  BY <1>1, <1>7 DEF chosen, upTo

\* Normalizing the meats of a form again changes nothing.
LEMMA MeatsAgain ==
  ASSUME NEW codes, NEW size
  PROVE  Meats(Meats(codes, size), size) = Meats(codes, size)
<1>1. SeqRange(Meats(codes, size)) \cap VisibleMeats(size) = SeqRange(codes) \cap VisibleMeats(size)
  BY MeatsOf
<1> QED
  BY <1>1 DEF Meats

-----------------------------------------------------------------------------
(* Forms *)

\* What clients enter are forms.
LEMMA ChangedForms ==
  ASSUME NEW f \in Form, NEW k \in DOMAIN f, NEW g \in Changed(f, k)
  PROVE  g \in Form
<1>1. DOMAIN f = {"staple", "size", "price", "amount", "taste", "extra", "eggs", "tofu", "meats",
                  "dining", "pack", "method", "note"}
  BY DEF Form
<1>2. PICK v \in Choice[k] : g = [f EXCEPT ![k] = v]
  BY DEF Changed
<1> USE IntakeAssumption DEF Entries, Form
<1>3. CASE k = "staple"
  BY <1>2, <1>3
<1>4. CASE k = "size"
  BY <1>2, <1>4
<1>5. CASE k = "price"
  BY <1>2, <1>5
<1>6. CASE k = "amount"
  BY <1>2, <1>6
<1>7. CASE k = "taste"
  BY <1>2, <1>7
<1>8. CASE k = "extra"
  BY <1>2, <1>8
<1>9. CASE k = "eggs"
  BY <1>2, <1>9
<1>10. CASE k = "tofu"
  BY <1>2, <1>10
<1>11. CASE k = "meats"
  BY <1>2, <1>11
<1>12. CASE k = "dining"
  BY <1>2, <1>12
<1>13. CASE k = "pack"
  BY <1>2, <1>13
<1>14. CASE k = "method"
  BY <1>2, <1>14
<1>15. CASE k = "note"
  BY <1>2, <1>15
<1> QED
  BY <1>1, <1>3, <1>4, <1>5, <1>6, <1>7, <1>8, <1>9, <1>10, <1>11, <1>12, <1>13, <1>14, <1>15

\* So are the forms with a new size and price.
LEMMA EnteredForms ==
  ASSUME NEW f \in Form, NEW g \in Entered(f)
  PROVE  g \in Form
<1>1. \A h \in Form : "size" \in DOMAIN h /\ "price" \in DOMAIN h
  BY DEF Form
<1>2. CASE g \in UNION {Changed(f, k) : k \in DOMAIN f}
  <2>1. PICK k \in DOMAIN f : g \in Changed(f, k)
    BY <1>2
  <2> QED
    BY <2>1, ChangedForms
<1>3. CASE g \in UNION {Changed(h, "price") : h \in Changed(f, "size")}
  <2>1. PICK h \in Changed(f, "size") : g \in Changed(h, "price")
    BY <1>3
  <2>2. h \in Form
    BY <1>1, <2>1, ChangedForms
  <2> QED
    BY <1>1, <2>1, <2>2, ChangedForms
<1> QED
  BY <1>2, <1>3 DEF Entered

\* A form as Normalize leaves it.
CleanForm(f) ==
    /\ f \in Form /\ Valid(f)
    /\ f.price # None <=> f.size = Custom
    /\ f.price # None => f.price > 0
    /\ f.pack # None <=> f.dining = Takeout
    /\ f.method # None <=> f.dining = Takeout
    /\ f.staple # YiNoodle => f.extra = 0
    /\ f.staple = Rice => f.size # Small
    /\ f.staple = None => f.amount = Normal /\ f.meats # <<>>
    /\ f.meats = Meats(f.meats, f.size)

\* What is accepted is clean, and has the meats that the new size offers.
LEMMA NormalizedIsClean ==
  ASSUME NEW f \in Form, Normalize(f) # Rejected
  PROVE  /\ CleanForm(Normalize(f))
         /\ Normalize(f).size = Size(f)
         /\ SeqRange(Normalize(f).meats) = SeqRange(f.meats) \cap VisibleMeats(Size(f))
<1> USE FormAssumption DEF RiceSheet, RiceVermicelli, YiNoodle, Rice, Small, Medium, Large, Custom,
        Normal, DineIn, Takeout, Container, Bag, Together, Separated,
        StapleCode, SizeCode, AdjustCode, DiningCode, PackCode, MethodCode, MeatCode
<1> DEFINE g == Normalized(f)
           meats == Meats(f.meats, Size(f))
<1>1. Normalize(f) = g /\ Valid(f) /\ CustomPriced(f) /\ ~Empty(g)
  BY DEF Normalize
<1>2. /\ f.staple \in StapleCode \cup {None} /\ f.size \in SizeCode /\ f.amount \in AdjustCode
      /\ f.dining \in DiningCode /\ f.pack \in PackCode \cup {None}
      /\ f.method \in MethodCode \cup {None} /\ f.extra \in Nat
      /\ f.price \in Int \cup {None}
  BY <1>1 DEF Valid, ValidAnyNote, Form
<1>3. /\ Size(f) \in SizeCode /\ CustomPrice(f) \in Int \cup {None} /\ Extra(f) \in Nat
      /\ Pack(f) \in PackCode \cup {None} /\ Method(f) \in MethodCode \cup {None}
  BY <1>2 DEF Size, CustomPrice, Extra, Pack, Method, DefaultMethod, Or
<1>4. meats \in Seq(Int) /\ SeqRange(meats) = SeqRange(f.meats) \cap VisibleMeats(Size(f))
  BY MeatsOf DEF InMenuOrder
<1> HIDE DEF meats
<1>5. g \in Form
  <2>1. /\ Size(f) \in Int /\ Extra(f) \in Int /\ Amount(f) \in Int
        /\ Pack(f) \in Int \cup {None} /\ Method(f) \in Int \cup {None}
    BY <1>2, <1>3 DEF Amount
  <2>2. PICK size \in Int : size = Size(f)
    BY <2>1
  <2>3. PICK price \in Int \cup {None} : price = CustomPrice(f)
    BY <1>3
  <2>4. PICK amount \in Int : amount = Amount(f)
    BY <2>1
  <2>5. PICK extra \in Int : extra = Extra(f)
    BY <2>1
  <2>6. PICK m \in Seq(Int) : m = Meats(f.meats, MeatSize(f))
    BY <1>4 DEF MeatSize, meats
  <2>7. PICK pack \in Int \cup {None} : pack = Pack(f)
    BY <2>1
  <2>8. PICK method \in Int \cup {None} : method = Method(f)
    BY <2>1
  <2>9. g = [f EXCEPT !.size = size, !.price = price, !.amount = amount, !.extra = extra,
                      !.meats = m, !.pack = pack, !.method = method]
    BY <2>2, <2>3, <2>4, <2>5, <2>6, <2>7, <2>8, Zenon DEF Normalized
  <2>10. [f EXCEPT !.size = size, !.price = price, !.amount = amount, !.extra = extra,
                   !.meats = m, !.pack = pack, !.method = method] \in Form
    BY DEF Form
  <2> QED
    BY <2>9, <2>10
<1>6. /\ g.staple = f.staple /\ g.size = Size(f) /\ g.price = CustomPrice(f)
      /\ g.amount = Amount(f)
      /\ g.taste = f.taste /\ g.extra = Extra(f) /\ g.eggs = f.eggs /\ g.tofu = f.tofu
      /\ g.meats = meats /\ g.dining = f.dining /\ g.pack = Pack(f) /\ g.method = Method(f)
      /\ g.note = f.note
  BY DEF Normalized, Form, MeatSize, meats
<1> HIDE DEF g
<1>7. Valid(g)
  <2>1. SeqRange(meats) \subseteq MeatCode
    BY <1>4 DEF VisibleMeats
  <2> QED
    BY <1>1, <1>2, <1>3, <1>6, <2>1 DEF Valid, ValidAnyNote, Amount
<1>8. /\ g.price # None <=> g.size = Custom
      /\ g.price # None => g.price > 0
  BY <1>1, <1>2, <1>6 DEF CustomPriced, CustomPrice, Size
<1>9. /\ g.pack # None <=> g.dining = Takeout
      /\ g.method # None <=> g.dining = Takeout
  BY <1>2, <1>6 DEF Pack, Method, DefaultMethod, Or
<1>10. /\ g.staple # YiNoodle => g.extra = 0
       /\ g.staple = Rice => g.size # Small
       /\ g.staple = None => g.amount = Normal /\ g.meats # <<>>
  BY <1>1, <1>2, <1>6 DEF Extra, Size, Empty, Amount
<1>11. g.meats = Meats(g.meats, g.size)
  BY <1>6, MeatsAgain DEF meats
<1> QED
  BY <1>1, <1>4, <1>5, <1>6, <1>7, <1>8, <1>9, <1>10, <1>11 DEF CleanForm

\* A clean form is accepted as it is.
LEMMA CleanIsStable ==
  ASSUME NEW f, CleanForm(f)
  PROVE  Normalize(f) = f
<1> USE FormAssumption DEF RiceSheet, RiceVermicelli, YiNoodle, Rice, Small, Medium, Large, Custom,
        Normal, DineIn, Takeout, DiningCode
<1>1. /\ f \in Form /\ Valid(f)
      /\ f.dining \in DiningCode
  BY DEF CleanForm, Valid, ValidAnyNote
<1>2. /\ Size(f) = f.size /\ CustomPrice(f) = f.price /\ Extra(f) = f.extra
      /\ Amount(f) = f.amount
  BY <1>1 DEF CleanForm, Size, CustomPrice, Extra, Amount
<1>3. Pack(f) = f.pack /\ Method(f) = f.method
  BY <1>1 DEF CleanForm, Pack, Method, Or
<1>4. Meats(f.meats, MeatSize(f)) = f.meats
  BY <1>2 DEF CleanForm, MeatSize
<1>5. Normalized(f) = f
  BY <1>1, <1>2, <1>3, <1>4 DEF Normalized, Form
<1>6. CustomPriced(f) /\ ~Empty(f)
  BY DEF CleanForm, CustomPriced, Empty
<1> QED
  BY <1>1, <1>5, <1>6 DEF Normalize

-----------------------------------------------------------------------------
(* Frames *)

\* A bounded set of numbers has a greatest element.
LEMMA Greatest ==
  ASSUME NEW n \in Nat, NEW S, S \subseteq 1..n, S # {}
  PROVE  Max(S) \in S /\ \A x \in S : x <= Max(S)
<1> DEFINE T == {n - x : x \in S}
<1>1. T \subseteq Nat /\ T # {}
  <2>1. \A x \in S : x \in Int /\ n - x \in Nat
    OBVIOUS
  <2> QED
    BY <2>1
<1>2. PICK least \in T : \A y \in T : least <= y
  <2> HIDE DEF T
  <2>1. PICK least \in T : \A y \in T : <<y, least>> \notin OpToRel(<, Nat)
    BY <1>1, WFMin, NatLessThanWellFounded, Zenon
  <2>2. \A y \in T : ~(y < least)
    BY <1>1, <2>1, Zenon DEF OpToRel
  <2>3. least \in Nat /\ \A y \in T : y \in Nat
    BY <1>1
  <2>4. \A y \in T : least <= y
    BY <2>2, <2>3
  <2> QED
    BY <2>4
<1>3. PICK greatest \in S : least = n - greatest
  BY <1>2
<1>4. \A x \in S : greatest >= x
  BY <1>2, <1>3
<1>5. \E x \in S : \A y \in S : x >= y
  BY <1>4
<1>6. Max(S) \in S /\ \A y \in S : Max(S) >= y
  BY <1>5 DEF Max
<1> QED
  BY <1>6

\* What one pass of the inner loop takes: orders that fit, and no fewer.
LEMMA TakenFits ==
  ASSUME quantity \in Nat, start \in 1..quantity
  PROVE  /\ Taken \in 1..(quantity - start + 1)
         /\ Fits(Taken)
         /\ Taken < quantity - start + 1 => ~Fits(Taken + 1)
<1> DEFINE left == quantity - start + 1
           S == {n \in 1..left : \A m \in 1..n : Fits(m)}
<1>1. left \in Nat \ {0} /\ S \subseteq 1..left
  OBVIOUS
<1>2. 1 \in S
  BY <1>1 DEF Fits
<1>3. Taken = Max(S)
  BY DEF Taken
<1>4. Taken \in S /\ \A x \in S : x <= Taken
  BY <1>1, <1>2, <1>3, Greatest
<1>5. Taken \in 1..left /\ \A m \in 1..Taken : Fits(m)
  BY <1>4
<1>6. ASSUME Taken < left, Fits(Taken + 1) PROVE FALSE
  <2>1. Taken + 1 \in 1..left /\ \A m \in 1..(Taken + 1) : m \in 1..Taken \/ m = Taken + 1
    BY <1>1, <1>5, <1>6
  <2>2. Taken + 1 \in S
    BY <1>5, <1>6, <2>1
  <2> QED
    BY <1>4, <1>5, <2>2
<1> QED
  BY <1>5, <1>6

\* The frames published so far follow each other and end before the next order.
FramesFollow ==
    /\ frames \in Seq(Nat \X Nat)
    /\ quantity = 0 => start = 1 /\ frames = <<>>
    /\ \A j \in 1..Len(frames) :
          /\ 1 <= frames[j][1] /\ frames[j][1] <= frames[j][2] /\ frames[j][2] < start
          /\ j < Len(frames) => frames[j + 1][1] = frames[j][2] + 1
          /\ j = Len(frames) => frames[j][2] = start - 1
    /\ \A j, k \in 1..Len(frames) : j < k => frames[j][2] < frames[k][1]
    /\ \A i \in 1..(start - 1) :
          \E j \in 1..Len(frames) : frames[j][1] <= i /\ i <= frames[j][2]

\* One order fits a frame; a frame within the budget is followed by another
\* only if it could not have taken one order more.
FramesFit ==
    /\ quantity > 0 => Wrapper + bytes <= FrameBytes
    /\ \A j \in 1..Len(frames) :
          LET n == frames[j][2] - frames[j][1] + 1
          IN  /\ n <= BatchSize
              /\ FrameSize(n) <= FrameBytes
              /\ j < Len(frames) \/ Publishing => n = BatchSize \/ FrameSize(n + 1) > FrameBytes

IntakeInv == TypeOK /\ CleanForm(form) /\ FramesFollow /\ FramesFit

\* A form that was accepted satisfies the form's part of TypeOK.
LEMMA CleanFormTypes ==
  ASSUME NEW f, CleanForm(f)
  PROVE  Valid(f) /\ f.price \in Nat \cup {None}
<1>1. f.price \in Int \cup {None}
  BY DEF CleanForm, Form
<1> QED
  BY <1>1 DEF CleanForm

\* The first form was accepted, and no batch is under way.
LEMMA IntakeInitially == Init => IntakeInv
<1> SUFFICES ASSUME Init PROVE IntakeInv
  OBVIOUS
<1>1. CleanForm(form)
  BY NormalizedIsClean, IntakeAssumption DEF Init
<1>2. TypeOK
  BY <1>1, CleanFormTypes, IntakeAssumption DEF Init, TypeOK
<1>3. FramesFollow /\ FramesFit
  BY DEF Init, FramesFollow, FramesFit
<1> QED
  BY <1>1, <1>2, <1>3 DEF IntakeInv

\* A frame is published: it begins where the last one ended.
LEMMA PublishStep ==
  ASSUME IntakeInv, Publishing, NEW n, n \in 1..(quantity - start + 1), Publish(n),
         Fits(n), n < quantity - start + 1 => ~Fits(n + 1)
  PROVE  IntakeInv'
<1>1. /\ quantity \in Nat /\ start \in 1..quantity /\ bytes \in Nat /\ frames \in Seq(Nat \X Nat)
      /\ quantity \in 0..MaxQuantity /\ Wrapper + bytes <= FrameBytes
  BY IntakeAssumption DEF IntakeInv, TypeOK, FramesFollow, FramesFit, Publishing
<1>2. /\ frames' = Append(frames, <<start, start + n - 1>>)
      /\ start' = start + n /\ UNCHANGED <<form, quantity, bytes>>
  BY DEF Publish
<1>3. /\ frames' \in Seq(Nat \X Nat) /\ Len(frames') = Len(frames) + 1 /\ Len(frames) \in Nat
      /\ \A j \in 1..Len(frames) : frames'[j] = frames[j]
      /\ frames'[Len(frames) + 1][1] = start /\ frames'[Len(frames) + 1][2] = start + n - 1
  <2>1. start \in Nat /\ start + n - 1 \in Nat
    BY <1>1
  <2>2. PICK frame \in Nat \X Nat : frame = <<start, start + n - 1>>
    BY <2>1
  <2>3. frames' = Append(frames, frame) /\ frame[1] = start /\ frame[2] = start + n - 1
    BY <1>2, <2>2
  <2>4. Len(frames) \in Nat
    BY <1>1
  <2> QED
    BY <1>1, <2>3, <2>4
<1>4. TypeOK' /\ CleanForm(form)'
  BY <1>1, <1>2 DEF IntakeInv, TypeOK
<1>5. \A j \in 1..Len(frames') : j \in 1..Len(frames) \/ j = Len(frames) + 1
  BY <1>3
<1>6. \A j \in 1..Len(frames) :
        /\ frames[j][1] \in Nat /\ frames[j][2] \in Nat
        /\ 1 <= frames[j][1] /\ frames[j][1] <= frames[j][2] /\ frames[j][2] < start
        /\ j < Len(frames) => frames[j + 1][1] = frames[j][2] + 1
        /\ j = Len(frames) => frames[j][2] = start - 1
  <2>1. ASSUME NEW j \in 1..Len(frames) PROVE frames[j][1] \in Nat /\ frames[j][2] \in Nat
    <3>1. frames[j] \in Nat \X Nat
      BY <1>1
    <3> QED
      BY <3>1
  <2> QED
    BY <1>1, <2>1 DEF IntakeInv, FramesFollow
<1>7. FramesFollow'
  <2>1. \A j \in 1..Len(frames') :
          /\ 1 <= frames'[j][1] /\ frames'[j][1] <= frames'[j][2] /\ frames'[j][2] < start'
          /\ j < Len(frames') => frames'[j + 1][1] = frames'[j][2] + 1
          /\ j = Len(frames') => frames'[j][2] = start' - 1
    <3>1. ASSUME NEW j \in 1..Len(frames)
          PROVE  /\ 1 <= frames'[j][1] /\ frames'[j][1] <= frames'[j][2] /\ frames'[j][2] < start'
                 /\ frames'[j + 1][1] = frames'[j][2] + 1
      <4>1. frames'[j] = frames[j] /\ start <= start'
        BY <1>1, <1>2, <1>3
      <4>2. CASE j < Len(frames)
        <5>1. j + 1 \in 1..Len(frames)
          BY <1>3, <4>2
        <5>2. frames'[j + 1] = frames[j + 1]
          BY <1>3, <5>1
        <5>3. start \in Nat /\ start' \in Nat
          BY <1>1, <1>2
        <5>4. frames[j][2] \in Nat
          BY <1>6
        <5> QED
          BY <1>6, <4>1, <4>2, <5>2, <5>3, <5>4
      <4>3. CASE j = Len(frames)
        <5>1. /\ frames'[j + 1][1] = start
              /\ 1 <= frames[j][1] /\ frames[j][1] <= frames[j][2] /\ frames[j][2] = start - 1
              /\ frames[j][1] \in Nat /\ frames[j][2] \in Nat
          BY <1>3, <1>6, <4>3
        <5>2. start \in Nat /\ start' \in Nat
          BY <1>1, <1>2
        <5> QED
          BY <4>1, <5>1, <5>2
      <4> QED
        BY <1>3, <4>2, <4>3
    <3>2. start + n - 1 < start' /\ 1 <= start /\ start <= start + n - 1
          /\ start + n - 1 = start' - 1
      BY <1>1, <1>2
    <3>3. \A j \in 1..Len(frames) : j # Len(frames')
      BY <1>3
    <3> QED
      BY <1>3, <1>5, <3>1, <3>2, <3>3
  <2>2. ASSUME NEW j \in 1..Len(frames'), NEW k \in 1..Len(frames'), j < k
        PROVE  frames'[j][2] < frames'[k][1]
    <3>1. j \in 1..Len(frames) /\ frames'[j] = frames[j]
      <4>1. j \in 1..Len(frames)
        BY <1>3, <1>5, <2>2
      <4> QED
        BY <1>3, <4>1
    <3>2. CASE k \in 1..Len(frames)
      BY <1>3, <2>2, <3>1, <3>2 DEF IntakeInv, FramesFollow
    <3>3. CASE k = Len(frames) + 1
      BY <1>3, <1>6, <3>1, <3>3
    <3> QED
      BY <1>5, <3>2, <3>3
  <2>3. ASSUME NEW i \in 1..(start' - 1)
        PROVE  \E j \in 1..Len(frames') : frames'[j][1] <= i /\ i <= frames'[j][2]
    <3>1. CASE i \in 1..(start - 1)
      <4>1. FramesFollow
        BY DEF IntakeInv
      <4>2. PICK j \in 1..Len(frames) : frames[j][1] <= i /\ i <= frames[j][2]
        BY <3>1, <4>1 DEF FramesFollow
      <4>3. j \in 1..Len(frames') /\ frames'[j] = frames[j]
        BY <1>3
      <4> QED
        BY <4>2, <4>3
    <3>2. CASE i \in start..(start + n - 1)
      <4>1. Len(frames) + 1 \in 1..Len(frames') /\ start <= i /\ i <= start + n - 1
        BY <1>1, <1>3, <3>2
      <4> QED
        BY <1>3, <4>1
    <3>3. i \in 1..(start - 1) \/ i \in start..(start + n - 1)
      BY <1>1, <1>2
    <3> QED
      BY <3>1, <3>2, <3>3
  <2>4. quantity' # 0
    BY <1>1, <1>2
  <2> QED
    BY <1>3, <2>1, <2>2, <2>3, <2>4 DEF FramesFollow
<1>8. FramesFit'
  <2>1. /\ \A m : FrameSize(m)' = FrameSize(m)
        /\ Wrapper + bytes' <= FrameBytes
    BY <1>1, <1>2 DEF FrameSize
  <2>2. n <= BatchSize /\ FrameSize(n) <= FrameBytes
    BY <1>1, IntakeAssumption DEF Fits, FrameSize
  <2>3. Publishing' => n = BatchSize \/ FrameSize(n + 1) > FrameBytes
    <3>1. ASSUME Publishing' PROVE ~Fits(n + 1)
      BY <1>1, <1>2, <3>1 DEF Publishing
    <3>2. FrameSize(n + 1) \in Int
      BY <1>1, IntakeAssumption DEF FrameSize
    <3> QED
      BY <1>1, <2>2, <3>1, <3>2, IntakeAssumption DEF Fits
  <2>4. ASSUME NEW j \in 1..Len(frames'),
               NEW k, k = frames'[j][2] - frames'[j][1] + 1
        PROVE  /\ k <= BatchSize
               /\ FrameSize(k) <= FrameBytes
               /\ j < Len(frames') \/ Publishing' => k = BatchSize \/ FrameSize(k + 1) > FrameBytes
    <3>1. CASE j \in 1..Len(frames)
      BY <1>3, <2>4, <3>1 DEF IntakeInv, FramesFit
    <3>2. CASE j = Len(frames) + 1
      <4>1. k = (start + n - 1) - start + 1 /\ start \in Nat
        BY <1>1, <1>3, <2>4, <3>2
      <4>2. k = n
        BY <4>1
      <4> QED
        BY <1>3, <2>2, <2>3, <3>2, <4>2
    <3> QED
      BY <1>5, <3>1, <3>2
  <2> QED
    BY <2>1, <2>4 DEF FramesFit
<1> QED
  BY <1>4, <1>7, <1>8 DEF IntakeInv

\* One order of the form fits a frame, whatever its note takes in JSON.
LEMMA OneOrderFits ==
  ASSUME CleanForm(form), NEW e \in 1..Expansion
  PROVE  /\ OrderBytes + form.note * e \in Nat
         /\ Wrapper + (OrderBytes + form.note * e) <= FrameBytes
<1> USE IntakeAssumption, FormAssumption
<1>1. form.note \in Nat /\ form.note <= MaxNote
  BY DEF CleanForm, Form, Valid
<1>2. PICK a \in Nat : form.note + a = MaxNote
  <2>1. MaxNote - form.note \in Nat /\ form.note + (MaxNote - form.note) = MaxNote
    BY <1>1
  <2> QED
    BY <2>1
<1>3. PICK b \in Nat : e + b = Expansion
  <2>1. Expansion - e \in Nat /\ e + (Expansion - e) = Expansion
    OBVIOUS
  <2> QED
    BY <2>1
<1>4. form.note * e \in Nat /\ form.note * b \in Nat /\ a * Expansion \in Nat
  BY <1>1, <1>2, <1>3
<1>5. MaxNote * Expansion = form.note * e + form.note * b + a * Expansion
  <2>1. ASSUME NEW u \in Nat, NEW v \in Nat, NEW w \in Nat
        PROVE  (u + v) * w = u * w + v * w /\ w * (u + v) = w * u + w * v
    OBVIOUS
  <2>2. MaxNote * Expansion = form.note * Expansion + a * Expansion
    <3>1. (form.note + a) * Expansion = form.note * Expansion + a * Expansion
      BY <1>1, <2>1
    <3> QED
      BY <1>2, <3>1
  <2>3. form.note * Expansion = form.note * e + form.note * b
    BY <1>1, <1>3, <2>1
  <2> QED
    BY <2>2, <2>3
<1>6. PICK size \in Nat : size = form.note * e
  BY <1>4
<1>7. Wrapper + OrderBytes + (size + form.note * b + a * Expansion) <= FrameBytes
  BY <1>5, <1>6
<1>8. OrderBytes + size \in Nat /\ Wrapper + (OrderBytes + size) <= FrameBytes
  BY <1>4, <1>6, <1>7
<1> QED
  BY <1>6, <1>8

\* Every step preserves the invariant.
LEMMA IntakeStep ==
  ASSUME IntakeInv, [Next]_vars
  PROVE  IntakeInv'
<1> USE IntakeAssumption
<1>1. TypeOK /\ CleanForm(form) /\ FramesFollow /\ FramesFit
  BY DEF IntakeInv
<1>2. CASE EditForm
  <2>1. PICK f \in Entered(form) : Submit(f)
    BY <1>2 DEF EditForm
  <2>2. /\ quantity = 0 /\ form' = Normalize(f) /\ Normalize(f) # Rejected
        /\ UNCHANGED <<quantity, bytes, start, frames>>
    BY <2>1 DEF Submit
  <2>3. CleanForm(form')
    BY <1>1, <2>2, EnteredForms, NormalizedIsClean DEF CleanForm
  <2>4. TypeOK'
    BY <1>1, <2>2, <2>3, CleanFormTypes DEF TypeOK
  <2>5. FramesFollow' /\ FramesFit'
    BY <1>1, <2>2 DEF FramesFollow, FramesFit
  <2> QED
    BY <2>3, <2>4, <2>5 DEF IntakeInv
<1>3. CASE CreateBatch
  <2>1. PICK e \in 1..Expansion : bytes' = OrderBytes + form.note * e
    BY <1>3 DEF CreateBatch
  <2>2. quantity = 0 /\ quantity' \in 1..MaxQuantity /\ UNCHANGED <<form, start, frames>>
    BY <1>3 DEF CreateBatch
  <2>3. bytes' \in Nat /\ Wrapper + bytes' <= FrameBytes
    BY <1>1, <2>1, OneOrderFits
  <2>4. start = 1 /\ start' = 1 /\ frames' = <<>> /\ form' = form
    BY <1>1, <2>2 DEF FramesFollow
  <2>5. quantity' \in 0..MaxQuantity /\ start' \in 1..(quantity' + 1) /\ quantity' # 0
    <3>1. quantity' \in 0..MaxQuantity /\ quantity' \in Nat \ {0}
      BY <2>2
    <3>2. \A q \in Nat : 1 \in 1..(q + 1)
      OBVIOUS
    <3> QED
      BY <2>4, <3>1, <3>2
  <2>6. TypeOK' /\ CleanForm(form)'
    BY <1>1, <2>3, <2>4, <2>5 DEF TypeOK
  <2>7. frames' \in Seq(Nat \X Nat) /\ \A j : j \notin 1..Len(frames')
    BY <2>4
  <2>8. \A i : i \notin 1..(start' - 1)
    BY <2>4
  <2>9. FramesFollow'
    BY <2>5, <2>7, <2>8 DEF FramesFollow
  <2>10. FramesFit'
    BY <2>3, <2>7 DEF FramesFit
  <2> QED
    BY <2>6, <2>9, <2>10 DEF IntakeInv
<1>4. CASE PublishSingle
  <2>1. /\ Publishing /\ quantity = 1 /\ Publish(1) /\ start = 1
    BY <1>1, <1>4 DEF PublishSingle, Publishing, TypeOK
  <2>2. Fits(1) /\ 1 \in 1..(quantity - start + 1) /\ ~(1 < quantity - start + 1)
    BY <2>1 DEF Fits
  <2> QED
    BY <2>1, <2>2, PublishStep
<1>5. CASE PublishMany
  <2>1. Publishing /\ Publish(Taken) /\ quantity \in Nat /\ start \in 1..quantity
    BY <1>1, <1>5 DEF PublishMany, Publishing, TypeOK
  <2> QED
    BY <2>1, TakenFits, PublishStep
<1>6. CASE Return
  BY <1>1, <1>6 DEF Return, IntakeInv, TypeOK, FramesFollow, FramesFit
<1>7. CASE UNCHANGED vars
  BY <1>1, <1>7 DEF vars, IntakeInv, TypeOK, FramesFollow, FramesFit, FrameSize, Publishing
<1> QED
  BY <1>2, <1>3, <1>4, <1>5, <1>6, <1>7 DEF Next

\* The invariant holds in every reachable state.
LEMMA IntakeAlways == Spec => []IntakeInv
<1>1. IntakeInv /\ [Next]_vars => IntakeInv'
  BY IntakeStep
<1> QED
  BY IntakeInitially, <1>1, PTL DEF Spec
-----------------------------------------------------------------------------
(* Theorems *)

(***************************************************************************)
(* What is stored of an order is a valid form, and the loop of             *)
(* publishUpserts stays within the batch, whatever clients submit.         *)
(***************************************************************************)
THEOREM IntakeTypesHold == Spec => []TypeOK
<1>1. IntakeInv => TypeOK
  BY DEF IntakeInv
<1> QED
  BY IntakeAlways, <1>1, PTL

\* A clean form has all of StoredFormIsClean.
LEMMA CleanFormIsClean == IntakeInv => StoredFormIsClean
<1> SUFFICES ASSUME IntakeInv PROVE StoredFormIsClean
  OBVIOUS
<1>1. CleanForm(form)
  BY DEF IntakeInv
<1>2. form.extra > 0 => form.staple = YiNoodle
  BY <1>1 DEF CleanForm
<1>3. InMenuOrder(form.meats, 6) /\ SeqRange(form.meats) \subseteq VisibleMeats(form.size)
  <2>1. form.meats = Meats(form.meats, form.size)
    BY <1>1 DEF CleanForm
  <2> QED
    BY <2>1, MeatsOf
<1>4. form.size = Small => 6 \notin SeqRange(form.meats)
  BY <1>3 DEF VisibleMeats
<1>5. \A i, j \in DOMAIN form.meats : i < j => form.meats[i] < form.meats[j]
  <2>1. form.meats \in Seq(Int)
    BY <1>3 DEF InMenuOrder
  <2>2. DOMAIN form.meats = 1..Len(form.meats)
    BY <2>1
  <2> QED
    BY <1>3, <2>2 DEF InMenuOrder
<1> QED
  BY <1>1, <1>2, <1>4, <1>5 DEF CleanForm, StoredFormIsClean

(***************************************************************************)
(* Whatever sequence of edits led to a stored form, Normalize left no      *)
(* field in it that its staple, size or dining method make meaningless.    *)
(***************************************************************************)
THEOREM StoredFormsAreClean == Spec => []StoredFormIsClean
  BY IntakeAlways, CleanFormIsClean, PTL

(***************************************************************************)
(* Normalize is idempotent on what it accepts: a client that submits the   *)
(* form of an order unchanged is accepted and changes nothing.             *)
(***************************************************************************)
THEOREM ResubmittingChangesNothing == Spec => []ResubmitChangesNothing
<1>1. IntakeInv => ResubmitChangesNothing
  BY CleanIsStable DEF IntakeInv, ResubmitChangesNothing
<1> QED
  BY IntakeAlways, <1>1, PTL

\* The prices of calculateBasePrice and the price list agree on a clean form.
LEMMA CleanFormPrice == IntakeInv => PriceOfStoredForm
<1> SUFFICES ASSUME IntakeInv PROVE PriceOfStoredForm
  OBVIOUS
<1> USE FormAssumption DEF RiceSheet, RiceVermicelli, YiNoodle, Rice, Small, Medium, Large, Custom,
        DineIn, Takeout, Container, Bag
<1>1. /\ CleanForm(form) /\ form.price \in Nat \cup {None}
      /\ form.staple \in {1, 2, 3, 4} \cup {None} /\ form.size \in {1, 2, 3, 4}
      /\ form.extra \in Nat /\ form.eggs \in Nat /\ form.tofu \in Nat
  BY DEF IntakeInv, TypeOK, CleanForm, Valid, ValidAnyNote, Form, StapleCode, SizeCode
<1> DEFINE kind == IF form.staple = Rice THEN "rice"
                   ELSE IF form.staple = YiNoodle THEN "yi" ELSE "other"
           base == IF form.price # None THEN form.price ELSE BaseOf[kind][form.size]
           pack == IF form.pack = Container THEN 50 ELSE 0
<1>2. /\ BaseOf["rice"] = <<0, 1500, 2000>> /\ BaseOf["yi"] = <<1100, 1300, 1600>>
      /\ BaseOf["other"] = <<1000, 1200, 1500>>
  BY DEF BaseOf
<1>3. BasePrice(form) = base /\ base \in Nat /\ base > 0
  <2>1. CASE form.size = Custom
    <3>1. form.price # None /\ form.price > 0
      BY <1>1, <2>1 DEF CleanForm
    <3> QED
      BY <1>1, <2>1, <3>1 DEF BasePrice
  <2>2. CASE form.size # Custom /\ form.staple = Rice
    <3>1. form.price = None /\ form.size \in {2, 3} /\ kind = "rice"
      BY <1>1, <2>2 DEF CleanForm
    <3> QED
      BY <1>2, <2>2, <3>1 DEF BasePrice
  <2>3. CASE form.size # Custom /\ form.staple = YiNoodle
    <3>1. form.price = None /\ form.size \in {1, 2, 3} /\ kind = "yi"
      BY <1>1, <2>3 DEF CleanForm
    <3> QED
      BY <1>2, <2>3, <3>1 DEF BasePrice, PriceBySize
  <2>4. CASE form.size # Custom /\ form.staple # Rice /\ form.staple # YiNoodle
    <3>1. form.price = None /\ form.size \in {1, 2, 3} /\ kind = "other"
      BY <1>1, <2>4 DEF CleanForm
    <3> QED
      BY <1>2, <2>4, <3>1 DEF BasePrice, PriceBySize
  <2> QED
    BY <2>1, <2>2, <2>3, <2>4
<1>4. Extras(form) = 300 * form.extra
  BY <1>1 DEF Extras, CleanForm
<1>5. (IF form.dining = Takeout /\ form.pack = Container THEN 50 ELSE 0) = pack /\ pack \in Nat
  BY <1>1 DEF CleanForm
<1>6. TotalPrice(form) = base + Extras(form) + form.eggs * 200 + form.tofu * 200 + pack
  BY <1>3, <1>5 DEF TotalPrice
<1>7. PriceList(form) = base + 300 * form.extra + 200 * (form.eggs + form.tofu) + pack
  BY DEF PriceList
<1> HIDE DEF base, pack
<1> QED
  BY <1>1, <1>3, <1>4, <1>5, <1>6, <1>7 DEF PriceOfStoredForm

(***************************************************************************)
(* calculateTotalPrice charges every stored form what the price list says  *)
(* of the fields that are left after normalization, and never nothing.     *)
(***************************************************************************)
THEOREM StoredFormsArePriced == Spec => []PriceOfStoredForm
  BY IntakeAlways, CleanFormPrice, PTL

(***************************************************************************)
(* Normalizing an edited form drops no meat that the size it is stored     *)
(* with offers, whatever size was submitted.                               *)
(***************************************************************************)
THEOREM EditsKeepMeats == Spec => []MeatsKept
<1>1. ASSUME IntakeInv PROVE MeatsKept
  <2>1. SUFFICES ASSUME NEW f \in Entered(form), Normalize(f) # Rejected,
                        NEW m \in SeqRange(f.meats) \ SeqRange(Normalize(f).meats)
                 PROVE  m = 6 /\ Normalize(f).size = Small
    BY DEF MeatsKept
  <2>2. f \in Form /\ Valid(f)
    BY <1>1, <2>1, EnteredForms DEF IntakeInv, CleanForm, Normalize
  <2>3. m \in 1..6 /\ m \notin VisibleMeats(Size(f)) /\ Normalize(f).size = Size(f)
    BY <2>1, <2>2, NormalizedIsClean DEF Valid, ValidAnyNote, MeatCode
  <2> QED
    BY <2>3 DEF VisibleMeats
<1> QED
  BY IntakeAlways, <1>1, PTL

\* Frames that follow each other have every order published so far once.
LEMMA FollowingFramesCover == IntakeInv => FramesCoverBatch
<1> SUFFICES ASSUME IntakeInv PROVE FramesCoverBatch
  OBVIOUS
<1>1. FramesFollow /\ start \in Nat /\ frames \in Seq(Nat \X Nat) /\ Len(frames) \in Nat
  BY IntakeAssumption DEF IntakeInv, FramesFollow, TypeOK
<1>2. DOMAIN frames = 1..Len(frames)
  BY <1>1
<1>3. ASSUME NEW j \in 1..Len(frames) PROVE frames[j][1] \in Nat /\ frames[j][2] \in Nat
  <2>1. frames[j] \in Nat \X Nat
    BY <1>1
  <2> QED
    BY <2>1
<1>4. ASSUME NEW i \in 1..(start - 1)
      PROVE  Cardinality({j \in DOMAIN frames : i \in frames[j][1]..frames[j][2]}) = 1
  <2>1. PICK j \in 1..Len(frames) : frames[j][1] <= i /\ i <= frames[j][2]
    BY <1>1 DEF FramesFollow
  <2>2. ASSUME NEW k \in 1..Len(frames), frames[k][1] <= i, i <= frames[k][2] PROVE k = j
    <3>1. \A a, b \in 1..Len(frames) : a < b => frames[a][2] < frames[b][1]
      BY <1>1 DEF FramesFollow
    <3>2. ~(k < j) /\ ~(j < k)
      BY <1>1, <1>3, <2>1, <2>2, <3>1
    <3> QED
      BY <3>2
  <2>3. \A k \in 1..Len(frames) :
          i \in frames[k][1]..frames[k][2] <=> frames[k][1] <= i /\ i <= frames[k][2]
    BY <1>3
  <2>4. {k \in DOMAIN frames : i \in frames[k][1]..frames[k][2]} = {j}
    BY <1>2, <2>1, <2>2, <2>3
  <2> QED
    BY <2>4, FS_Singleton
<1>5. ASSUME NEW j \in DOMAIN frames
      PROVE  /\ frames[j][2] < start
             /\ j + 1 \in DOMAIN frames => frames[j + 1][1] = frames[j][2] + 1
  <2>1. j \in 1..Len(frames) /\ (j + 1 \in DOMAIN frames => j < Len(frames))
    BY <1>1, <1>2, <1>5
  <2> QED
    BY <1>1, <2>1 DEF FramesFollow
<1> QED
  BY <1>4, <1>5 DEF FramesCoverBatch

(***************************************************************************)
(* publishUpserts puts every order of a batch into exactly one frame, in   *)
(* order, for every batch, batch size and frame budget.                    *)
(***************************************************************************)
THEOREM BatchesAreCovered == Spec => []FramesCoverBatch
  BY IntakeAlways, FollowingFramesCover, PTL

(***************************************************************************)
(* No frame of publishUpserts exceeds the batch size or the budget, and    *)
(* none ends before an order that it could have taken, provided that one   *)
(* order with the longest note fits (IntakeAssumption, the comment at      *)
(* service/v1/order.go:501).                                               *)
(***************************************************************************)
THEOREM FramesAreWithinBudget == Spec => []FramesFitBudget
<1>1. ASSUME IntakeInv PROVE FramesFitBudget
  <2>1. FramesFit /\ frames \in Seq(Nat \X Nat)
    BY <1>1 DEF IntakeInv, FramesFollow
  <2>2. DOMAIN frames = 1..Len(frames)
    BY <2>1
  <2> QED
    BY <2>1, <2>2 DEF FramesFit, FramesFitBudget
<1> QED
  BY IntakeAlways, <1>1, PTL
=============================================================================
