------------------------------ MODULE CartProofs ------------------------------
(***************************************************************************)
(* One cart behind the gateway, proved for any number of products,         *)
(* requests, forwards and faults: every value that is read or written has  *)
(* one line per product, so it is as good as the quantities it adds up to, *)
(* and on these every step is one of CartPromise or none.                  *)
(***************************************************************************)
EXTENDS Cart, DataLemmas, SequenceTheorems, TLAPS

-----------------------------------------------------------------------------
(* What the lines of a cart add up to.                                     *)

OneLine(lines) == \A i, j \in DOMAIN lines : lines[i].product = lines[j].product => i = j

\* A cart as the handlers read and write it.
Carts == {lines \in Seq(Lines) : OneLine(lines)}

LEMMA LineTypes ==
    ASSUME NEW lines \in Seq(Lines)
    PROVE  /\ Len(lines) \in Nat /\ DOMAIN lines = 1 .. Len(lines)
           /\ \A i \in 1 .. Len(lines) : /\ lines[i] \in Lines /\ lines[i].product \in Products
                                         /\ lines[i].quantity \in Nat \ {0}
<1>1. \A i \in 1 .. Len(lines) : lines[i] \in Lines
  OBVIOUS
<1>2. QED
  BY <1>1 DEF Lines

\* With one line per product, the quantity of a product is that of its line.
LEMMA GoodsOfLine ==
    ASSUME NEW lines \in Carts, NEW p \in Products
    PROVE  /\ \A i \in 1 .. Len(lines) : lines[i].product = p => Goods(lines)[p] = lines[i].quantity
           /\ ~InCart(p, lines) => Goods(lines)[p] = 0
<1> DEFINE f == [i \in DOMAIN lines |-> lines[i].quantity]
           J == {i \in DOMAIN lines : lines[i].product = p}
<1>1. Goods(lines)[p] = SumFunctionOnSet(f, J)
  BY DEF Goods
<1>2. Len(lines) \in Nat /\ DOMAIN lines = 1 .. Len(lines) /\ lines \in Seq(Lines) /\ OneLine(lines)
  BY LineTypes DEF Carts
<1>3. ASSUME NEW i \in 1 .. Len(lines), lines[i].product = p
      PROVE  Goods(lines)[p] = lines[i].quantity
  <2>1. J = {i}
    BY <1>2, <1>3 DEF OneLine
  <2>2. f[i] = lines[i].quantity /\ f[i] \in Int
    BY <1>2, LineTypes
  <2> HIDE DEF f, J
  <2>3. IsFiniteSet({i}) /\ IsFiniteSet({})
    BY FS_Singleton, FS_EmptySet
  <2>4. SumFunctionOnSet(f, {i}) = f[i] + SumFunctionOnSet(f, {i} \ {i})
    BY <2>2, <2>3, SumSplit
  <2>5. {i} \ {i} = {} /\ SumFunctionOnSet(f, {}) = 0
    BY <2>3, SumRecursion
  <2>6. SumFunctionOnSet(f, J) = f[i] + 0
    BY <2>1, <2>4, <2>5
  <2>7. QED
    BY <1>1, <2>2, <2>6
<1>4. ASSUME ~InCart(p, lines)
      PROVE  Goods(lines)[p] = 0
  <2>1. J = {}
    BY <1>4 DEF InCart
  <2>2. SumFunctionOnSet(f, {}) = 0
    BY FS_EmptySet, SumRecursion
  <2>3. QED
    BY <1>1, <2>1, <2>2
<1>5. QED
  BY <1>3, <1>4

LEMMA GoodsTyped ==
    ASSUME NEW lines \in Carts
    PROVE  /\ Goods(lines) \in [Products -> Nat]
           /\ \A p \in Products : Goods(lines)[p] = 0 <=> ~InCart(p, lines)
<1>1. ASSUME NEW p \in Products
      PROVE  Goods(lines)[p] \in Nat /\ (Goods(lines)[p] = 0 <=> ~InCart(p, lines))
  <2>1. CASE InCart(p, lines)
    <3>1. PICK i \in 1 .. Len(lines) : lines[i].product = p
      BY <2>1, LineTypes DEF InCart, Carts
    <3>2. Goods(lines)[p] = lines[i].quantity
      BY <3>1, GoodsOfLine
    <3>3. lines[i].quantity \in Nat \ {0}
      BY LineTypes DEF Carts
    <3>4. QED
      BY <2>1, <3>2, <3>3
  <2>2. CASE ~InCart(p, lines)
    <3>1. Goods(lines)[p] = 0
      BY <2>2, GoodsOfLine
    <3>2. QED
      BY <2>2, <3>1
  <2>3. QED
    BY <2>1, <2>2
<1>2. \A p \in Products : Goods(lines)[p] \in Nat
  BY <1>1
<1>3. DOMAIN Goods(lines) = Products /\ Goods(lines) = [p \in Products |-> Goods(lines)[p]]
  BY DEF Goods
<1>4. Goods(lines) \in [Products -> Nat]
  BY <1>2, <1>3
<1>5. QED
  BY <1>1, <1>4

LEMMA EmptyCart == <<>> \in Carts /\ Goods(<<>>) = [p \in Products |-> 0]
<1>1. <<>> \in Carts
  BY DEF Carts, OneLine
<1>2. ASSUME NEW p \in Products
      PROVE  Goods(<<>>)[p] = 0
  <2>1. ~InCart(p, <<>>)
    BY DEF InCart
  <2>2. QED
    BY <1>1, <2>1, GoodsOfLine
<1>3. Goods(<<>>) \in [Products -> Nat]
  BY <1>1, GoodsTyped
<1>4. QED
  BY <1>1, <1>2, <1>3

\* Carts that agree on every product are as good as each other.
LEMMA GoodsAre ==
    ASSUME NEW lines \in Carts, NEW g \in [Products -> Nat],
           \A p \in Products :
              \/ \E i \in 1 .. Len(lines) : lines[i].product = p /\ g[p] = lines[i].quantity
              \/ ~InCart(p, lines) /\ g[p] = 0
    PROVE  Goods(lines) = g
<1>1. Goods(lines) \in [Products -> Nat]
  BY GoodsTyped
<1>2. ASSUME NEW p \in Products
      PROVE  Goods(lines)[p] = g[p]
  BY GoodsOfLine
<1>3. QED
  BY <1>1, <1>2

-----------------------------------------------------------------------------
(* What the handlers make of a cart.                                       *)

LEMMA IndexIsLine ==
    ASSUME NEW lines \in Carts, NEW p, InCart(p, lines)
    PROVE  IndexOf(p, lines) \in 1 .. Len(lines) /\ lines[IndexOf(p, lines)].product = p
<1> DEFINE I == {i \in 1 .. Len(lines) : lines[i].product = p}
<1>1. Len(lines) \in Nat /\ DOMAIN lines = 1 .. Len(lines)
  BY LineTypes DEF Carts
<1>2. I # {} /\ I \subseteq 1 .. Len(lines)
  BY <1>1 DEF InCart
<1>3. IndexOf(p, lines) = IF I # {} THEN Min(I) ELSE 0
  BY DEF IndexOf, SelectInSeq
<1>4. Min(I) \in I
  <2> HIDE DEF I
  <2>1. QED
    BY <1>1, <1>2, MinOfBounded
<1>5. QED
  BY <1>2, <1>3, <1>4

\* A line gets another quantity.
Having(g, p, n) == [g EXCEPT ![p] = n]

LEMMA LineSet ==
    ASSUME NEW lines \in Seq(Lines), NEW k \in 1 .. Len(lines), NEW n \in Nat \ {0}
    PROVE  \E changed \in [1 .. Len(lines) -> Lines] :
              /\ changed = [lines EXCEPT ![k].quantity = n]
              /\ changed[k].product = lines[k].product /\ changed[k].quantity = n
              /\ \A i \in 1 .. Len(lines) : i # k => changed[i] = lines[i]
<1> DEFINE line == [lines[k] EXCEPT !.quantity = n]
           changed == [i \in 1 .. Len(lines) |-> IF i = k THEN line ELSE lines[i]]
<1>1. DOMAIN lines = 1 .. Len(lines) /\ lines = [i \in 1 .. Len(lines) |-> lines[i]]
  BY LineTypes
<1>2. \A i \in 1 .. Len(lines) : lines[i] \in Lines
  BY LineTypes
<1>3. line \in Lines /\ line.product = lines[k].product /\ line.quantity = n
  BY <1>2 DEF Lines
<1>4. [lines EXCEPT ![k].quantity = n] = changed
  BY <1>1
<1> HIDE DEF line
<1>5. changed \in [1 .. Len(lines) -> Lines]
  BY <1>2, <1>3
<1>6. changed[k] = line /\ \A i \in 1 .. Len(lines) : i # k => changed[i] = lines[i]
  OBVIOUS
<1> HIDE DEF changed
<1>7. QED
  BY <1>3, <1>4, <1>5, <1>6

LEMMA LineChanges ==
    ASSUME NEW lines \in Carts, NEW k \in 1 .. Len(lines), NEW n \in Nat \ {0},
           NEW changed \in [1 .. Len(lines) -> Lines],
           changed[k].product = lines[k].product, changed[k].quantity = n,
           \A i \in 1 .. Len(lines) : i # k => changed[i] = lines[i]
    PROVE  changed \in Carts /\ Goods(changed) = Having(Goods(lines), lines[k].product, n)
<1> DEFINE p == lines[k].product
           g == Having(Goods(lines), p, n)
<1>1. lines \in Seq(Lines) /\ OneLine(lines)
  BY DEF Carts
<1>2. /\ Len(lines) \in Nat /\ DOMAIN lines = 1 .. Len(lines)
      /\ \A i \in 1 .. Len(lines) : lines[i] \in Lines
  BY <1>1, LineTypes
<1>3. p \in Products
  BY <1>2 DEF Lines
<1>6. changed \in Seq(Lines) /\ Len(changed) = Len(lines) /\ DOMAIN changed = 1 .. Len(lines)
  <2>1. DOMAIN changed = 1 .. Len(lines)
    OBVIOUS
  <2>2. changed \in Seq(Lines)
    BY <1>2, SeqDef
  <2>3. QED
    BY <1>2, <2>1, <2>2, LenProperties
<1>7. /\ changed[k].product = p /\ changed[k].quantity = n
      /\ \A i \in 1 .. Len(lines) : i # k => changed[i] = lines[i]
  OBVIOUS
<1>8. \A i \in 1 .. Len(lines) : changed[i].product = lines[i].product
  BY <1>7
<1>9. changed \in Carts
  <2>1. OneLine(changed)
    BY <1>1, <1>2, <1>6, <1>8 DEF OneLine
  <2>2. QED
    BY <1>6, <2>1 DEF Carts
<1>10. Goods(lines) \in [Products -> Nat]
  BY GoodsTyped
<1>11. g \in [Products -> Nat] /\ g[p] = n /\ \A q \in Products \ {p} : g[q] = Goods(lines)[q]
  BY <1>3, <1>10 DEF Having
<1> HIDE DEF g, p
<1>12. ASSUME NEW q \in Products
       PROVE  \/ \E i \in 1 .. Len(changed) : changed[i].product = q /\ g[q] = changed[i].quantity
              \/ ~InCart(q, changed) /\ g[q] = 0
  <2>1. CASE q = p
    BY <1>6, <1>7, <1>11, <2>1
  <2>2. CASE q # p /\ InCart(q, lines)
    <3>1. PICK i \in 1 .. Len(lines) : lines[i].product = q
      BY <1>2, <2>2 DEF InCart
    <3>2. i # k /\ changed[i] = lines[i]
      BY <1>7, <2>2, <3>1 DEF p
    <3>3. g[q] = lines[i].quantity
      BY <1>11, <2>2, <3>1, GoodsOfLine
    <3>4. QED
      BY <1>6, <3>1, <3>2, <3>3
  <2>3. CASE q # p /\ ~InCart(q, lines)
    <3>1. g[q] = 0
      BY <1>11, <2>3, GoodsOfLine
    <3>2. ~InCart(q, changed)
      BY <1>2, <1>6, <1>8, <2>3 DEF InCart
    <3>3. QED
      BY <3>1, <3>2
  <2>4. QED
    BY <2>1, <2>2, <2>3
<1>13. Goods(changed) = g
  BY <1>9, <1>11, <1>12, GoodsAre
<1>14. QED
  BY <1>9, <1>13 DEF g, p

LEMMA Rewritten ==
    ASSUME NEW lines \in Carts, NEW k \in 1 .. Len(lines), NEW n \in Nat \ {0}
    PROVE  /\ [lines EXCEPT ![k].quantity = n] \in Carts
           /\ Goods([lines EXCEPT ![k].quantity = n]) = Having(Goods(lines), lines[k].product, n)
<1>1. lines \in Seq(Lines)
  BY DEF Carts
<1>2. PICK changed \in [1 .. Len(lines) -> Lines] :
              /\ changed = [lines EXCEPT ![k].quantity = n]
              /\ changed[k].product = lines[k].product /\ changed[k].quantity = n
              /\ \A i \in 1 .. Len(lines) : i # k => changed[i] = lines[i]
  BY <1>1, LineSet
<1>2a. /\ changed[k].product = lines[k].product
       /\ changed[k].quantity = n
       /\ \A i \in 1 .. Len(lines) : i # k => changed[i] = lines[i]
  BY <1>2
<1>3. changed \in Carts /\ Goods(changed) = Having(Goods(lines), lines[k].product, n)
  BY <1>2a, LineChanges
<1>4. QED
  BY <1>2, <1>3

LEMMA AddItem ==
    ASSUME NEW lines \in Carts, NEW p \in Products, NEW n \in Nat \ {0}, NEW req,
           req.product = p, req.quantity = n
    PROVE  /\ add_item(req, lines) \in Carts
           /\ Goods(add_item(req, lines)) = [Goods(lines) EXCEPT ![p] = @ + n]
<1>0. Goods(lines) \in [Products -> Nat]
  BY GoodsTyped
<1>1. CASE InCart(p, lines)
  <2> DEFINE k == IndexOf(p, lines)
             m == lines[k].quantity + n
  <2>1. k \in 1 .. Len(lines) /\ lines[k].product = p
    BY <1>1, IndexIsLine
  <2>2. lines[k].quantity \in Nat \ {0} /\ Goods(lines)[p] = lines[k].quantity
    BY <2>1, LineTypes, GoodsOfLine DEF Carts
  <2>3. m \in Nat \ {0}
    BY <2>2
  <2>4. add_item(req, lines) = [lines EXCEPT ![k].quantity = m]
    BY <1>1 DEF add_item
  <2> HIDE DEF k
  <2>5. m = Goods(lines)[p] + n
    BY <2>2
  <2> HIDE DEF m
  <2>6. /\ add_item(req, lines) \in Carts
        /\ Goods(add_item(req, lines)) = Having(Goods(lines), lines[k].product, m)
    <3>1. /\ [lines EXCEPT ![k].quantity = m] \in Carts
          /\ Goods([lines EXCEPT ![k].quantity = m]) = Having(Goods(lines), lines[k].product, m)
      BY <2>1, <2>3, Rewritten
    <3>2. QED
      BY <2>4, <3>1
  <2>7. QED
    BY <1>0, <2>1, <2>5, <2>6 DEF Having
<1>2. CASE ~InCart(p, lines)
  <2> DEFINE line == [product |-> p, quantity |-> n]
             more == Append(lines, line)
             g == [Goods(lines) EXCEPT ![p] = @ + n]
  <2>1. lines \in Seq(Lines) /\ OneLine(lines) /\ line \in Lines
    BY DEF Carts, Lines
  <2>2. Len(lines) \in Nat /\ DOMAIN lines = 1 .. Len(lines)
    BY <2>1, LineTypes
  <2>2a. line.product = p /\ line.quantity = n
    OBVIOUS
  <2>3. add_item(req, lines) = more
    BY <1>2 DEF add_item
  <2> HIDE DEF line
  <2>4. /\ more \in Seq(Lines) /\ Len(more) = Len(lines) + 1 /\ DOMAIN more = 1 .. Len(lines) + 1
        /\ \A i \in 1 .. Len(lines) : more[i] = lines[i]
        /\ more[Len(lines) + 1] = line
    BY <2>1, <2>2
  <2> HIDE DEF more
  <2>5. \A i \in 1 .. Len(lines) : lines[i].product # p
    BY <1>2, <2>2 DEF InCart
  <2>6. OneLine(more)
    BY <2>1, <2>2, <2>2a, <2>4, <2>5 DEF OneLine
  <2>7. more \in Carts
    BY <2>4, <2>6 DEF Carts
  <2>8. Goods(lines)[p] = 0
    BY <1>2, GoodsOfLine
  <2>9. g \in [Products -> Nat] /\ g[p] = n /\ \A q \in Products \ {p} : g[q] = Goods(lines)[q]
    BY <1>0, <2>8
  <2> HIDE DEF g
  <2>10. ASSUME NEW q \in Products
         PROVE  \/ \E i \in 1 .. Len(more) : more[i].product = q /\ g[q] = more[i].quantity
                \/ ~InCart(q, more) /\ g[q] = 0
    <3>1. CASE q = p
      <4>1. Len(lines) + 1 \in 1 .. Len(more)
        BY <2>2, <2>4
      <4>2. QED
        BY <2>2a, <2>4, <2>9, <3>1, <4>1
    <3>2. CASE q # p /\ InCart(q, lines)
      <4>1. PICK i \in 1 .. Len(lines) : lines[i].product = q
        BY <2>2, <3>2 DEF InCart
      <4>2. i \in 1 .. Len(more) /\ more[i] = lines[i]
        BY <2>2, <2>4
      <4>3. g[q] = lines[i].quantity
        BY <2>9, <3>2, <4>1, GoodsOfLine
      <4>4. QED
        BY <4>1, <4>2, <4>3
    <3>3. CASE q # p /\ ~InCart(q, lines)
      <4>1. g[q] = 0
        BY <2>9, <3>3, GoodsOfLine
      <4>2. ~InCart(q, more)
        BY <2>2, <2>2a, <2>4, <3>3 DEF InCart
      <4>3. QED
        BY <4>1, <4>2
    <3>4. QED
      BY <3>1, <3>2, <3>3
  <2>11. Goods(more) = g
    BY <2>7, <2>9, <2>10, GoodsAre
  <2>12. QED
    BY <2>3, <2>7, <2>11 DEF g
<1>3. QED
  BY <1>1, <1>2

LEMMA UpdateItem ==
    ASSUME NEW lines \in Carts, NEW p \in Products, NEW n \in Nat \ {0}, NEW req,
           req.product = p, req.quantity = n, InCart(p, lines)
    PROVE  /\ update_item(req, lines) \in Carts
           /\ Goods(update_item(req, lines)) = [Goods(lines) EXCEPT ![p] = n]
<1> DEFINE k == IndexOf(p, lines)
<1>1. k \in 1 .. Len(lines) /\ lines[k].product = p
  BY IndexIsLine
<1>2. update_item(req, lines) = [lines EXCEPT ![k].quantity = n]
  BY DEF update_item
<1> HIDE DEF k
<1> DEFINE changed == [lines EXCEPT ![k].quantity = n]
<1>2a. changed \in Carts /\ Goods(changed) = Having(Goods(lines), lines[k].product, n)
  BY <1>1, Rewritten
<1> HIDE DEF changed
<1>2b. update_item(req, lines) = changed
  BY <1>2 DEF changed
<1>3. /\ update_item(req, lines) \in Carts
      /\ Goods(update_item(req, lines)) = Having(Goods(lines), lines[k].product, n)
  BY <1>2a, <1>2b
<1>4. QED
  BY <1>1, <1>3 DEF Having

\* The lines kept of the first n, when the product p goes.
KeptOf(lines, p, n, s) ==
    /\ s \in Seq(Lines)
    /\ OneLine(s)
    /\ \A j \in 1 .. Len(s) : \E i \in 1 .. n : s[j] = lines[i] /\ lines[i].product # p
    /\ \A i \in 1 .. n : lines[i].product # p => \E j \in 1 .. Len(s) : s[j] = lines[i]

LEMMA KeptStep ==
    ASSUME NEW lines \in Carts, NEW p, NEW n \in 1 .. Len(lines), NEW s, KeptOf(lines, p, n - 1, s)
    PROVE  KeptOf(lines, p, n, IF lines[n].product = p THEN s ELSE Append(s, lines[n]))
<1>1. /\ Len(lines) \in Nat /\ DOMAIN lines = 1 .. Len(lines)
      /\ lines[n] \in Lines /\ OneLine(lines)
  BY LineTypes DEF Carts
<1>2. \A i \in 1 .. n : i \in 1 .. n - 1 \/ i = n
  BY <1>1
<1>3. \A i \in 1 .. n - 1 : i \in 1 .. n /\ i # n /\ i \in 1 .. Len(lines)
  BY <1>1
<1>4. s \in Seq(Lines) /\ Len(s) \in Nat /\ DOMAIN s = 1 .. Len(s)
  BY LineTypes DEF KeptOf
<1>5. CASE lines[n].product = p
  <2>1. \A j \in 1 .. Len(s) : \E i \in 1 .. n : s[j] = lines[i] /\ lines[i].product # p
    BY <1>3 DEF KeptOf
  <2>2. \A i \in 1 .. n : lines[i].product # p => \E j \in 1 .. Len(s) : s[j] = lines[i]
    BY <1>2, <1>5 DEF KeptOf
  <2>3. QED
    BY <1>5, <2>1, <2>2 DEF KeptOf
<1>6. CASE lines[n].product # p
  <2> DEFINE t == Append(s, lines[n])
  <2>1. /\ t \in Seq(Lines) /\ Len(t) = Len(s) + 1 /\ DOMAIN t = 1 .. Len(s) + 1
        /\ \A j \in 1 .. Len(s) : t[j] = s[j]
        /\ t[Len(s) + 1] = lines[n]
    BY <1>1, <1>4
  <2> HIDE DEF t
  <2>2. /\ \A j \in 1 .. Len(t) : j \in 1 .. Len(s) \/ j = Len(s) + 1
        /\ \A j \in 1 .. Len(s) : j \in 1 .. Len(t)
        /\ Len(s) + 1 \in 1 .. Len(t)
    BY <1>4, <2>1
  <2>3. ASSUME NEW j \in 1 .. Len(s)
        PROVE  \E i \in 1 .. n - 1 : t[j] = lines[i] /\ lines[i].product # p
    BY <2>1 DEF KeptOf
  <2>4. ASSUME NEW j \in 1 .. Len(t)
        PROVE  \E i \in 1 .. n : t[j] = lines[i] /\ lines[i].product # p
    <3>1. CASE j = Len(s) + 1
      <4>1. n \in 1 .. n
        BY <1>1
      <4>2. QED
        BY <1>6, <2>1, <3>1, <4>1
    <3>2. QED
      BY <1>3, <2>2, <2>3, <3>1
  <2>5. ASSUME NEW i \in 1 .. n, lines[i].product # p
        PROVE  \E j \in 1 .. Len(t) : t[j] = lines[i]
    <3>1. CASE i = n
      BY <2>1, <2>2, <3>1
    <3>2. CASE i # n
      <4>1. PICK j \in 1 .. Len(s) : s[j] = lines[i]
        BY <1>2, <2>5, <3>2 DEF KeptOf
      <4>2. j \in 1 .. Len(t) /\ t[j] = lines[i]
        BY <2>1, <2>2, <4>1
      <4>3. QED
        BY <4>2
    <3>3. QED
      BY <3>1, <3>2
  <2>6. ASSUME NEW j \in 1 .. Len(s)
        PROVE  t[j].product # lines[n].product
    <3>1. PICK i \in 1 .. n - 1 : t[j] = lines[i]
      BY <2>3
    <3>2. i # n /\ i \in DOMAIN lines /\ n \in DOMAIN lines
      BY <1>1, <1>3
    <3>3. lines[i].product # lines[n].product
      BY <1>1, <3>2 DEF OneLine
    <3>4. QED
      BY <3>1, <3>3
  <2>7. ASSUME NEW i \in DOMAIN t, NEW j \in DOMAIN t, t[i].product = t[j].product
        PROVE  i = j
    <3>1. CASE i \in 1 .. Len(s) /\ j \in 1 .. Len(s)
      <4>1. s[i].product = s[j].product
        BY <2>1, <2>7, <3>1
      <4>2. QED
        BY <1>4, <3>1, <4>1 DEF KeptOf, OneLine
    <3>2. CASE i = Len(s) + 1 /\ j \in 1 .. Len(s)
      BY <2>1, <2>6, <2>7, <3>2
    <3>3. CASE i \in 1 .. Len(s) /\ j = Len(s) + 1
      BY <2>1, <2>6, <2>7, <3>3
    <3>4. CASE i = Len(s) + 1 /\ j = Len(s) + 1
      BY <3>4
    <3>5. (i \in 1 .. Len(s) \/ i = Len(s) + 1) /\ (j \in 1 .. Len(s) \/ j = Len(s) + 1)
      BY <2>1, <2>2
    <3>6. QED
      BY <3>1, <3>2, <3>3, <3>4, <3>5
  <2>8. KeptOf(lines, p, n, t)
    BY <2>1, <2>4, <2>5, <2>7 DEF KeptOf, OneLine
  <2>9. QED
    BY <1>6, <2>8 DEF t
<1>7. QED
  BY <1>5, <1>6

LEMMA KeptTable ==
    ASSUME NEW lines \in Carts, NEW req
    PROVE  \E kept :
              /\ kept[0] = <<>>
              /\ \A n \in 1 .. Len(lines) : kept[n] = IF lines[n].product = req.product THEN kept[n - 1]
                                                       ELSE Append(kept[n - 1], lines[n])
              /\ remove_item(req, lines) = kept[Len(lines)]
<1> DEFINE N == Len(lines)
           step == [n \in 1 .. N |-> [s \in Seq(Lines) |->
                       IF lines[n].product = req.product THEN s ELSE Append(s, lines[n])]]
           Is(kept) == kept = [n \in 0 .. N |-> IF n = 0 THEN <<>>
                                                ELSE IF lines[n].product = req.product THEN kept[n - 1]
                                                ELSE Append(kept[n - 1], lines[n])]
<1>1. N \in Nat /\ \A n \in 1 .. N : lines[n] \in Lines
  BY LineTypes DEF Carts
<1>2. step \in [1 .. N -> [Seq(Lines) -> Seq(Lines)]]
  <2>1. ASSUME NEW n \in 1 .. N, NEW s \in Seq(Lines)
        PROVE  (IF lines[n].product = req.product THEN s ELSE Append(s, lines[n])) \in Seq(Lines)
    BY <1>1
  <2>2. QED
    BY <2>1
<1>3. <<>> \in Seq(Lines)
  OBVIOUS
<1>4. \A n \in 1 .. N, s \in Seq(Lines) :
         step[n][s] = IF lines[n].product = req.product THEN s ELSE Append(s, lines[n])
  OBVIOUS
<1> HIDE DEF step, N
<1>5. PICK g \in [0 .. N -> Seq(Lines)] : g[0] = <<>> /\ \A n \in 1 .. N : g[n] = step[n][g[n - 1]]
  <2> DEFINE S == Seq(Lines)
             none == <<>>
  <2>1. step \in [1 .. N -> [S -> S]] /\ none \in S /\ N \in Nat
    BY <1>1, <1>2, <1>3
  <2> HIDE DEF S, none
  <2>2. \E g \in [0 .. N -> S] : StepsTo(N, none, step, g)
    BY <2>1, StepTable
  <2>3. QED
    BY <2>2 DEF S, none, StepsTo
<1>6. ASSUME NEW n \in 1 .. N
      PROVE  g[n] = IF lines[n].product = req.product THEN g[n - 1] ELSE Append(g[n - 1], lines[n])
  <2>1. n - 1 \in 0 .. N
    BY <1>1
  <2>2. g[n - 1] \in Seq(Lines)
    BY <2>1
  <2>3. QED
    BY <1>4, <1>5, <2>2
<1>7. Is(g)
  <2>1. \A n \in 0 .. N : n = 0 \/ n \in 1 .. N
    BY <1>1
  <2>2. 0 \notin 1 .. N
    BY <1>1
  <2>3. \A n \in 0 .. N : g[n] = IF n = 0 THEN <<>>
                                 ELSE IF lines[n].product = req.product THEN g[n - 1]
                                 ELSE Append(g[n - 1], lines[n])
    BY <1>5, <1>6, <2>1, <2>2
  <2>4. QED
    BY <2>3
<1> DEFINE kept == CHOOSE h : Is(h)
<1>8. Is(kept)
  BY <1>7
<1>9. remove_item(req, lines) = kept[N]
  BY DEF remove_item, N
<1>10. kept[0] = <<>>
  <2>1. 0 \in 0 .. N
    BY <1>1
  <2>2. QED
    BY <1>8, <2>1
<1>11. \A n \in 1 .. N : kept[n] = IF lines[n].product = req.product THEN kept[n - 1]
                                   ELSE Append(kept[n - 1], lines[n])
  <2>1. \A n \in 1 .. N : n \in 0 .. N /\ n # 0
    BY <1>1
  <2>2. QED
    BY <1>8, <2>1
<1> HIDE DEF kept
<1>12. QED
  BY <1>9, <1>10, <1>11 DEF N

LEMMA RemoveItem ==
    ASSUME NEW lines \in Carts, NEW p \in Products, NEW req, req.product = p
    PROVE  /\ remove_item(req, lines) \in Carts
           /\ Goods(remove_item(req, lines)) = [Goods(lines) EXCEPT ![p] = 0]
<1> DEFINE rest == remove_item(req, lines)
           N == Len(lines)
           g == [Goods(lines) EXCEPT ![p] = 0]
<1>1. N \in Nat /\ DOMAIN lines = 1 .. N /\ OneLine(lines) /\ \A n \in 1 .. N : lines[n] \in Lines
  BY LineTypes DEF Carts
<1>2. PICK kept :
         /\ kept[0] = <<>>
         /\ \A n \in 1 .. N : kept[n] = IF lines[n].product = p THEN kept[n - 1]
                                        ELSE Append(kept[n - 1], lines[n])
         /\ rest = kept[N]
  BY KeptTable
<1> HIDE DEF rest
<1>3. \A n \in 0 .. N : KeptOf(lines, p, n, kept[n])
  <2> DEFINE Bad == {n \in 0 .. N : ~ KeptOf(lines, p, n, kept[n])}
  <2>1. SUFFICES ASSUME Bad # {} PROVE FALSE
    OBVIOUS
  <2>2. Bad \subseteq Nat
    OBVIOUS
  <2>3. PICK n \in Bad : \A m \in Bad : n <= m
    <3> HIDE DEF Bad
    <3>1. QED
      BY <2>1, <2>2, LeastNatural
  <2>4. n \in 0 .. N /\ ~ KeptOf(lines, p, n, kept[n])
    OBVIOUS
  <2>5. CASE n = 0
    <3>1. <<>> \in Seq(Lines) /\ Len(<<>>) = 0 /\ DOMAIN <<>> = {}
      OBVIOUS
    <3>2. 1 .. 0 = {}
      OBVIOUS
    <3>3. KeptOf(lines, p, 0, <<>>)
      BY <3>1, <3>2 DEF KeptOf, OneLine
    <3>4. QED
      BY <1>2, <2>4, <2>5, <3>3
  <2>6. CASE n # 0
    <3>1. n \in 1 .. N /\ n - 1 \in 0 .. N /\ ~ (n <= n - 1)
      BY <1>1, <2>4, <2>6
    <3>2. KeptOf(lines, p, n - 1, kept[n - 1])
      BY <2>3, <3>1
    <3>3. KeptOf(lines, p, n, IF lines[n].product = p THEN kept[n - 1] ELSE Append(kept[n - 1], lines[n]))
      <4> HIDE DEF Bad
      <4>1. QED
        BY <3>1, <3>2, KeptStep
    <3>4. QED
      BY <1>2, <2>4, <3>1, <3>3
  <2>7. QED
    BY <2>5, <2>6
<1>4. KeptOf(lines, p, N, rest)
  <2>1. N \in 0 .. N
    BY <1>1
  <2>2. QED
    BY <1>2, <1>3, <2>1
<1>5. rest \in Carts
  BY <1>4 DEF KeptOf, Carts
<1>6. rest \in Seq(Lines) /\ DOMAIN rest = 1 .. Len(rest)
  BY <1>5, LineTypes DEF Carts
<1>7. Goods(lines) \in [Products -> Nat]
  BY GoodsTyped
<1>8. g \in [Products -> Nat] /\ g[p] = 0 /\ \A q \in Products \ {p} : g[q] = Goods(lines)[q]
  BY <1>7
<1> HIDE DEF g
<1>9. \A j \in 1 .. Len(rest) : \E i \in 1 .. N : rest[j] = lines[i] /\ lines[i].product # p
  BY <1>4 DEF KeptOf
<1>10. \A i \in 1 .. N : lines[i].product # p => \E j \in 1 .. Len(rest) : rest[j] = lines[i]
  BY <1>4 DEF KeptOf
<1>11. ASSUME NEW q \in Products
       PROVE  \/ \E j \in 1 .. Len(rest) : rest[j].product = q /\ g[q] = rest[j].quantity
              \/ ~InCart(q, rest) /\ g[q] = 0
  <2>1. CASE q = p
    <3>1. ~InCart(p, rest)
      BY <1>6, <1>9 DEF InCart
    <3>2. QED
      BY <1>8, <2>1, <3>1
  <2>2. CASE q # p /\ InCart(q, lines)
    <3>1. PICK i \in 1 .. N : lines[i].product = q
      BY <1>1, <2>2 DEF InCart
    <3>2. PICK j \in 1 .. Len(rest) : rest[j] = lines[i]
      BY <1>10, <2>2, <3>1
    <3>3. g[q] = lines[i].quantity
      BY <1>8, <2>2, <3>1, GoodsOfLine
    <3>4. QED
      BY <3>1, <3>2, <3>3
  <2>3. CASE q # p /\ ~InCart(q, lines)
    <3>1. g[q] = 0
      BY <1>8, <2>3, GoodsOfLine
    <3>2. ~InCart(q, rest)
      BY <1>1, <1>6, <1>9, <2>3 DEF InCart
    <3>3. QED
      BY <3>1, <3>2
  <2>4. QED
    BY <2>1, <2>2, <2>3
<1>12. Goods(rest) = g
  BY <1>5, <1>8, <1>11, GoodsAre
<1>13. QED
  BY <1>5, <1>12 DEF g, rest

-----------------------------------------------------------------------------
(* What a request makes of a cart, and of what it adds up to.              *)

LEMMA Asks ==
    ASSUME NEW req \in Operations
    PROVE  /\ req # Nothing /\ req.op \in {"add", "update", "remove", "clear", "checkout"}
           /\ req.op \in {"add", "update", "remove"} => req.product \in Products
           /\ req.op \in {"add", "update"} => req.quantity \in Nat \ {0}
           /\ Tries(req) \in 1 .. Attempts
<1>1. /\ Attempts \in Nat \ {0} /\ Quantities \subseteq Nat \ {0}
  BY CartAssumption
<1>2. /\ req # Nothing /\ req.op \in {"add", "update", "remove", "clear", "checkout"}
  BY DEF Operations, Nothing
<1>3. req.op \in {"add", "update", "remove"} => req.product \in Products
  BY DEF Operations
<1>4. req.op \in {"add", "update"} => req.quantity \in Quantities
  BY DEF Operations
<1>5. Tries(req) \in 1 .. Attempts
  BY <1>1 DEF Tries
<1>6. QED
  BY <1>1, <1>2, <1>3, <1>4, <1>5

\* What the handler writes is a cart, and the one the promise names.
LEMMA EditedCart ==
    ASSUME NEW lines \in Carts, NEW req \in Operations, req.op \in {"add", "update", "remove"},
           req.op # "add" => InCart(req.product, lines)
    PROVE  /\ Edited(req, lines) \in Carts
           /\ Goods(Edited(req, lines)) = Promise!Effect(req, Goods(lines))
           /\ ~Promise!Refuses(req, Goods(lines))
<1> DEFINE p == req.product
           n == req.quantity
<1>1. p \in Products /\ (req.op \in {"add", "update"} => n \in Nat \ {0})
  BY Asks
<1>2. ~Promise!Refuses(req, Goods(lines))
  BY <1>1, GoodsTyped DEF Promise!Refuses
<1>3. CASE req.op = "add"
  <2>1. Edited(req, lines) = add_item(req, lines)
    BY <1>3 DEF Edited
  <2>2. Promise!Effect(req, Goods(lines)) = [Goods(lines) EXCEPT ![p] = @ + n]
    BY <1>3 DEF Promise!Effect
  <2>3. /\ add_item(req, lines) \in Carts
        /\ Goods(add_item(req, lines)) = [Goods(lines) EXCEPT ![p] = @ + n]
    BY <1>1, <1>3, AddItem
  <2>4. QED
    BY <1>2, <2>1, <2>2, <2>3
<1>4. CASE req.op = "update"
  <2>1. Edited(req, lines) = update_item(req, lines)
    BY <1>4 DEF Edited
  <2>2. Promise!Effect(req, Goods(lines)) = [Goods(lines) EXCEPT ![p] = n]
    BY <1>4 DEF Promise!Effect
  <2>3. /\ update_item(req, lines) \in Carts
        /\ Goods(update_item(req, lines)) = [Goods(lines) EXCEPT ![p] = n]
    BY <1>1, <1>4, UpdateItem
  <2>4. QED
    BY <1>2, <2>1, <2>2, <2>3
<1>5. CASE req.op = "remove"
  <2>1. Edited(req, lines) = remove_item(req, lines)
    BY <1>5 DEF Edited
  <2>2. Promise!Effect(req, Goods(lines)) = [Goods(lines) EXCEPT ![p] = 0]
    BY <1>5 DEF Promise!Effect
  <2>3. /\ remove_item(req, lines) \in Carts
        /\ Goods(remove_item(req, lines)) = [Goods(lines) EXCEPT ![p] = 0]
    BY <1>1, RemoveItem
  <2>4. QED
    BY <1>2, <2>1, <2>2, <2>3
<1>6. QED
  BY <1>3, <1>4, <1>5

-----------------------------------------------------------------------------
(* The inductive invariant.                                                *)

Handlers == [pc : {"none"} \cup Open \cup Over, seen : Seq(Lines)]

\* A request has been forwarded if it has been asked, as often as it may be.
RequestOK(r) ==
    /\ asked[r] = Nothing => answer[r] = "none" /\ attempt[r] = 0
    /\ asked[r] # Nothing => attempt[r] \in 1 .. Tries(asked[r])

\* What a handler has read is a cart it may change, and was current after its
\* copy was sent; what clears the cart has read nothing.
HasRead(r, k, lines) ==
    asked[r].op \notin {"clear", "checkout"} =>
        /\ Goods(lines) \in since[r][k]
        /\ asked[r].op # "add" => InCart(asked[r].product, lines)

\* The handlers at work or done are those of the copies sent.  One that may yet
\* change the cart has its present goods among those it may have found.
HandlerOK(r, k) ==
    LET h == handler[r][k]
    IN  /\ OneLine(h.seen)
        /\ h.pc # "none" <=> k <= attempt[r]
        /\ h.pc \in Open => Goods(cart) \in since[r][k]
        /\ h.pc \in {"read", "unsure"} => HasRead(r, k, h.seen)

CartInv ==
    /\ TypeOK
    /\ OneLine(cart)
    /\ \A r \in Requests : RequestOK(r)
    /\ \A r \in Requests, k \in Copies : HandlerOK(r, k)

LEMMA NestedChange ==
    ASSUME NEW A, NEW B, NEW C, NEW f \in [A -> [B -> C]], NEW a \in A, NEW b \in B, NEW c \in C
    PROVE  /\ [f EXCEPT ![a][b] = c] \in [A -> [B -> C]]
           /\ [f EXCEPT ![a][b] = c][a][b] = c
           /\ \A x \in A, y \in B : <<x, y>> # <<a, b>> => [f EXCEPT ![a][b] = c][x][y] = f[x][y]
  OBVIOUS

LEMMA NoHandlerType == NoHandler \in Handlers /\ NoHandler.pc = "none" /\ NoHandler.seen = <<>>
  BY DEF Handlers, NoHandler

LEMMA Stages ==
    /\ Open = {"sent", "read", "unsure"} /\ Over = {"written", "refused", "error", "lost"}
    /\ Open \cap Over = {} /\ "none" \notin Open \cup Over
  BY DEF Open, Over, Running

LEMMA Ended ==
    ASSUME NEW pc \in Over
    PROVE  /\ [NoHandler EXCEPT !.pc = pc] \in Handlers
           /\ [NoHandler EXCEPT !.pc = pc].pc = pc /\ [NoHandler EXCEPT !.pc = pc].seen = <<>>
<1>1. [NoHandler EXCEPT !.pc = pc] = [pc |-> pc, seen |-> <<>>]
  BY DEF NoHandler
<1>2. [pc |-> pc, seen |-> <<>>] \in Handlers
  BY DEF Handlers
<1>3. QED
  BY <1>1, <1>2

LEMMA InitInv == Init => CartInv
<1> SUFFICES ASSUME Init PROVE CartInv
  OBVIOUS
<1>1. Attempts \in Nat \ {0} /\ MaxFaults \in Nat
  BY CartAssumption
<1>2. \A r \in Requests, k \in Copies : handler[r][k] = NoHandler
  BY DEF Init
<1>3. \A r \in Requests : asked[r] = Nothing /\ attempt[r] = 0 /\ answer[r] = "none"
  BY DEF Init
<1>4. TypeOK
  <2>1. [r \in Requests |-> [k \in Copies |-> NoHandler]] \in [Requests -> [Copies -> Handlers]]
    BY NoHandlerType
  <2>2. handler \in [Requests -> [Copies -> Handlers]]
    BY <2>1 DEF Init
  <2>3. /\ cart \in Seq(Lines) /\ asked \in [Requests -> {Nothing} \cup Operations]
        /\ attempt \in [Requests -> 0 .. Attempts]
        /\ faults \in 0 .. MaxFaults
    BY <1>1 DEF Init
  <2>4. /\ answer \in [Requests -> {"none", "ok", "refused", "failed"}]
        /\ since \in [Requests -> [Copies -> SUBSET [Products -> Nat]]]
    BY DEF Init
  <2>5. QED
    BY <2>2, <2>3, <2>4 DEF TypeOK, Handlers
<1>5. OneLine(cart) /\ OneLine(<<>>)
  BY DEF Init, OneLine
<1>6. ASSUME NEW r \in Requests
      PROVE  RequestOK(r)
  BY <1>3 DEF RequestOK
<1>7. ASSUME NEW r \in Requests, NEW k \in Copies
      PROVE  HandlerOK(r, k)
  <2>1. handler[r][k].pc = "none" /\ handler[r][k].seen = <<>>
    BY <1>2, NoHandlerType
  <2>2. ~ (k <= attempt[r])
    BY <1>1, <1>3 DEF Copies
  <2>3. QED
    BY <1>5, <2>1, <2>2, Stages DEF HandlerOK
<1>8. QED
  BY <1>4, <1>5, <1>6, <1>7 DEF CartInv

LEMMA InvTypes ==
    ASSUME CartInv
    PROVE  /\ cart \in Carts /\ Goods(cart) \in [Products -> Nat]
           /\ asked \in [Requests -> {Nothing} \cup Operations]
           /\ attempt \in [Requests -> 0 .. Attempts]
           /\ handler \in [Requests -> [Copies -> Handlers]]
           /\ answer \in [Requests -> {"none", "ok", "refused", "failed"}]
           /\ since \in [Requests -> [Copies -> SUBSET [Products -> Nat]]]
           /\ faults \in 0 .. MaxFaults
<1>1. cart \in Carts
  BY DEF CartInv, TypeOK, Carts
<1>2. QED
  BY <1>1, GoodsTyped DEF CartInv, TypeOK, Handlers

LEMMA FaultType ==
    ASSUME CartInv, Fault
    PROVE  faults' \in 0 .. MaxFaults
<1>1. faults \in 0 .. MaxFaults /\ MaxFaults \in Nat
  BY InvTypes, CartAssumption
<1>2. faults < MaxFaults /\ faults' = faults + 1
  BY DEF Fault
<1>3. QED
  BY <1>1, <1>2

\* What is known of a request that has a handler.
LEMMA HandlersAsked ==
    ASSUME CartInv, NEW r \in Requests, NEW k \in Copies, handler[r][k].pc # "none"
    PROVE  asked[r] # Nothing /\ asked[r] \in Operations
<1>1. k <= attempt[r] /\ RequestOK(r)
  BY DEF CartInv, HandlerOK
<1>2. asked[r] # Nothing
  BY <1>1, CartAssumption DEF RequestOK, Copies
<1>3. QED
  BY <1>2, InvTypes

LEMMA AskedTypes ==
    ASSUME CartInv, NEW r \in Requests, asked[r] # Nothing
    PROVE  /\ asked[r] \in Operations /\ Tries(asked[r]) \in 1 .. Attempts
           /\ attempt[r] \in 1 .. Tries(asked[r]) /\ attempt[r] \in Copies
           /\ handler[r][attempt[r]].pc # "none"
<1>1. asked[r] \in Operations
  BY InvTypes
<1>2. Tries(asked[r]) \in 1 .. Attempts
  BY <1>1, Asks
<1>3. attempt[r] \in 1 .. Tries(asked[r])
  BY DEF CartInv, RequestOK
<1>4. attempt[r] \in Copies /\ attempt[r] <= attempt[r]
  BY <1>2, <1>3, CartAssumption DEF Copies
<1>5. handler[r][attempt[r]].pc # "none"
  BY <1>4 DEF CartInv, HandlerOK
<1>6. QED
  BY <1>1, <1>2, <1>3, <1>4, <1>5

\* What changes when a single handler does.
Moves(r, k, h) == handler' = [handler EXCEPT ![r][k] = h]

LEMMA OneHandler ==
    ASSUME CartInv, NEW r \in Requests, NEW k \in Copies, NEW h \in Handlers, Moves(r, k, h)
    PROVE  /\ handler' \in [Requests -> [Copies -> Handlers]]
           /\ handler'[r][k] = h
           /\ \A s \in Requests, j \in Copies : <<s, j>> # <<r, k>> => handler'[s][j] = handler[s][j]
<1>1. handler \in [Requests -> [Copies -> Handlers]]
  BY InvTypes
<1>2. handler' = [handler EXCEPT ![r][k] = h]
  BY DEF Moves
<1>3. QED
  BY <1>1, <1>2, NestedChange

\* A handler that does not move stays as it should be, if what it may find grows
\* with what the cart becomes.
LEMMA HandlerStays ==
    ASSUME CartInv, NEW r \in Requests, NEW k \in Copies,
           handler'[r][k] = handler[r][k],
           k <= attempt'[r] <=> k <= attempt[r],
           handler[r][k].pc \in Open =>
              asked'[r] = asked[r] /\ since[r][k] \subseteq since'[r][k] /\ Goods(cart)' \in since'[r][k]
    PROVE  HandlerOK(r, k)'
<1>1. HandlerOK(r, k)
  BY DEF CartInv
<1>2. /\ OneLine(handler'[r][k].seen)
      /\ handler'[r][k].pc # "none" <=> k <= attempt'[r]
      /\ handler'[r][k].pc \in Open => Goods(cart)' \in since'[r][k]
  BY <1>1 DEF HandlerOK
<1>3. ASSUME handler[r][k].pc \in {"read", "unsure"}
      PROVE  asked[r].op \notin {"clear", "checkout"} =>
                /\ Goods(handler[r][k].seen) \in since'[r][k]
                /\ asked[r].op # "add" => \E i \in DOMAIN handler[r][k].seen :
                                             handler[r][k].seen[i].product = asked[r].product
  <2>1. HasRead(r, k, handler[r][k].seen) /\ since[r][k] \subseteq since'[r][k]
    BY <1>1, <1>3, Stages DEF HandlerOK
  <2>2. QED
    BY <2>1 DEF HasRead, InCart
<1>4. handler[r][k].pc \in {"read", "unsure"} => asked'[r] = asked[r]
  BY Stages
<1>5. QED
  BY <1>2, <1>3, <1>4 DEF HandlerOK, HasRead, InCart, Goods

\* Of the next copy to be sent nothing has been heard.
LEMMA NextCopy ==
    ASSUME CartInv, NEW r \in Requests, NEW k \in Copies, k = attempt[r] + 1
    PROVE  /\ handler[r][k].pc = "none" /\ OneLine(handler[r][k].seen)
           /\ [handler[r][k] EXCEPT !.pc = "sent"] \in Handlers
           /\ [handler[r][k] EXCEPT !.pc = "sent"].pc = "sent"
           /\ [handler[r][k] EXCEPT !.pc = "sent"].seen = handler[r][k].seen
           /\ handler' = [handler EXCEPT ![r][k].pc = "sent"] =>
                 Moves(r, k, [handler[r][k] EXCEPT !.pc = "sent"])
<1>1. attempt[r] \in Nat
  BY InvTypes, CartAssumption
<1>2. HandlerOK(r, k)
  BY DEF CartInv
<1>3. handler[r][k].pc = "none" /\ OneLine(handler[r][k].seen)
  BY <1>1, <1>2 DEF HandlerOK
<1>4. handler[r][k] \in Handlers
  BY InvTypes
<1>5. QED
  BY <1>3, <1>4, Stages DEF Handlers, Moves

LEMMA SendInv ==
    ASSUME CartInv, NEW r \in Requests, NEW k \in Copies, Send(r, k), k = attempt[r] + 1,
           NEW req \in Operations, asked[r] \in {Nothing, req}, k \in 1 .. Tries(req),
           asked' = [asked EXCEPT ![r] = req],
           UNCHANGED <<cart, answer>>, faults' \in 0 .. MaxFaults
    PROVE  CartInv'
<1> DEFINE h == [handler[r][k] EXCEPT !.pc = "sent"]
<1>1. /\ h \in Handlers /\ h.pc = "sent" /\ h.seen = handler[r][k].seen /\ Moves(r, k, h)
      /\ handler[r][k].pc = "none" /\ OneLine(handler[r][k].seen)
  BY NextCopy DEF Send
<1> HIDE DEF h
<1>2. /\ handler' \in [Requests -> [Copies -> Handlers]]
      /\ handler'[r][k] = h
      /\ \A s \in Requests, j \in Copies : <<s, j>> # <<r, k>> => handler'[s][j] = handler[s][j]
  BY <1>1, OneHandler
<1>3. /\ asked' \in [Requests -> {Nothing} \cup Operations]
      /\ asked'[r] = req /\ \A s \in Requests : s # r => asked'[s] = asked[s]
  BY InvTypes
<1>4. /\ attempt' \in [Requests -> 0 .. Attempts] /\ attempt[r] \in Nat
      /\ attempt'[r] = k /\ \A s \in Requests : s # r => attempt'[s] = attempt[s]
  <2>1. k \in 0 .. Attempts /\ attempt[r] \in Nat
    BY InvTypes, CartAssumption DEF Copies
  <2>2. attempt' = [attempt EXCEPT ![r] = k]
    BY DEF Send
  <2>3. QED
    BY <2>1, <2>2, InvTypes
<1>5. /\ since' \in [Requests -> [Copies -> SUBSET [Products -> Nat]]]
      /\ since'[r][k] = {Goods(cart)}
      /\ \A s \in Requests, j \in Copies : <<s, j>> # <<r, k>> => since'[s][j] = since[s][j]
  <2>1. since' = [since EXCEPT ![r][k] = {Goods(cart)}]
    BY DEF Send
  <2>2. {Goods(cart)} \in SUBSET [Products -> Nat]
    BY InvTypes
  <2>3. since \in [Requests -> [Copies -> SUBSET [Products -> Nat]]]
    BY InvTypes
  <2>4. QED
    BY <2>1, <2>2, <2>3, NestedChange
<1>6. cart' = cart /\ answer' = answer /\ Goods(cart)' = Goods(cart)
  BY DEF Goods
<1>7. TypeOK'
  <2>1. cart \in Seq(Lines) /\ answer \in [Requests -> {"none", "ok", "refused", "failed"}]
    BY InvTypes DEF Carts
  <2>2. QED
    BY <1>2, <1>3, <1>4, <1>5, <1>6, <2>1 DEF TypeOK, Handlers
<1>8. OneLine(cart)'
  BY <1>6 DEF CartInv
<1>9. ASSUME NEW s \in Requests
      PROVE  RequestOK(s)'
  <2>1. RequestOK(s)
    BY DEF CartInv
  <2>2. CASE s = r
    <3>1. req # Nothing
      BY Asks
    <3>2. QED
      BY <1>3, <1>4, <2>2, <3>1 DEF RequestOK, Tries
  <2>3. CASE s # r
    BY <1>3, <1>4, <1>6, <2>1, <2>3 DEF RequestOK, Tries
  <2>4. QED
    BY <2>2, <2>3
<1>10. ASSUME NEW s \in Requests, NEW j \in Copies
       PROVE  HandlerOK(s, j)'
  <2>1. HandlerOK(s, j)
    BY DEF CartInv
  <2>2. CASE s = r /\ j = k
    <3>1. k <= attempt'[r]
      BY <1>4 DEF Copies
    <3>2. QED
      BY <1>1, <1>2, <1>5, <1>6, <2>2, <3>1 DEF HandlerOK
  <2>3. CASE <<s, j>> # <<r, k>>
    <3>1. handler'[s][j] = handler[s][j] /\ since'[s][j] = since[s][j]
      BY <1>2, <1>5, <2>3
    <3>2. j <= attempt'[s] <=> j <= attempt[s]
      BY <1>4, <2>3, CartAssumption DEF Copies
    <3>3. handler[s][j].pc \in Open => asked'[s] = asked[s]
      <4>1. CASE s = r
        BY <1>3, <4>1, HandlersAsked, Stages
      <4>2. CASE s # r
        BY <1>3, <4>2
      <4>3. QED
        BY <4>1, <4>2
    <3>4. handler[s][j].pc \in Open => Goods(cart)' \in since'[s][j]
      BY <1>6, <2>1, <3>1 DEF HandlerOK
    <3>5. QED
      BY <3>1, <3>2, <3>3, <3>4, HandlerStays
  <2>4. QED
    BY <2>2, <2>3
<1>11. QED
  BY <1>7, <1>8, <1>9, <1>10 DEF CartInv

\* A step that sends nothing need only account for the handlers.
LEMMA NothingSent ==
    ASSUME CartInv, UNCHANGED <<asked, attempt>>, cart' \in Carts,
           handler' \in [Requests -> [Copies -> Handlers]],
           since' \in [Requests -> [Copies -> SUBSET [Products -> Nat]]],
           answer' \in [Requests -> {"none", "ok", "refused", "failed"}],
           faults' \in 0 .. MaxFaults,
           \A s \in Requests : asked[s] = Nothing => answer'[s] = answer[s],
           \A s \in Requests, k \in Copies : HandlerOK(s, k)'
    PROVE  CartInv'
<1>1. TypeOK'
  <2>1. /\ cart' \in Seq(Lines) /\ asked \in [Requests -> {Nothing} \cup Operations]
        /\ attempt \in [Requests -> 0 .. Attempts]
    BY InvTypes DEF Carts
  <2>2. QED
    BY <2>1 DEF TypeOK, Handlers
<1>2. OneLine(cart)'
  BY DEF Carts, OneLine
<1>3. ASSUME NEW s \in Requests
      PROVE  RequestOK(s)'
  BY DEF CartInv, RequestOK, Tries
<1>4. QED
  BY <1>1, <1>2, <1>3 DEF CartInv

LEMMA AnswerInv ==
    ASSUME CartInv, NEW r \in Requests, asked[r] # Nothing, NEW told \in {"ok", "refused", "failed"},
           answer' = [answer EXCEPT ![r] = told],
           UNCHANGED <<cart, asked, attempt, handler, since>>, faults' \in 0 .. MaxFaults
    PROVE  CartInv'
<1>1. /\ answer' \in [Requests -> {"none", "ok", "refused", "failed"}]
      /\ \A s \in Requests : s # r => answer'[s] = answer[s]
  BY InvTypes
<1>2. /\ handler' \in [Requests -> [Copies -> Handlers]] /\ cart' \in Carts
      /\ since' \in [Requests -> [Copies -> SUBSET [Products -> Nat]]]
  BY InvTypes
<1>3. ASSUME NEW s \in Requests, NEW j \in Copies
      PROVE  HandlerOK(s, j)'
  <2>1. Goods(cart)' = Goods(cart)
    BY DEF Goods
  <2>2. handler[s][j].pc \in Open => Goods(cart) \in since[s][j]
    BY DEF CartInv, HandlerOK
  <2>3. QED
    BY <2>1, <2>2, HandlerStays
<1>4. QED
  BY <1>1, <1>2, <1>3, NothingSent

LEMMA AskInv ==
    ASSUME CartInv, NEW r \in Requests, NEW req \in Operations, Ask(r, req)
    PROVE  CartInv'
<1>1. /\ asked[r] = Nothing /\ Send(r, 1) /\ UNCHANGED <<cart, answer, faults>>
      /\ asked' = [asked EXCEPT ![r] = req]
  BY DEF Ask
<1>2. attempt[r] = 0
  BY <1>1 DEF CartInv, RequestOK
<1>3. 1 \in Copies /\ 1 \in 1 .. Tries(req)
  BY Asks, CartAssumption DEF Copies
<1>4. 1 = attempt[r] + 1 /\ faults' \in 0 .. MaxFaults
  BY <1>1, <1>2, InvTypes
<1>5. QED
  BY <1>1, <1>3, <1>4, SendInv

LEMMA RequestErrorInv ==
    ASSUME CartInv, NEW r \in Requests, RequestError(r)
    PROVE  CartInv'
<1>1. asked[r] # Nothing /\ UNCHANGED <<cart, asked>> /\ faults' \in 0 .. MaxFaults
  BY FaultType DEF RequestError, Waiting
<1>2. /\ asked[r] \in Operations /\ Tries(asked[r]) \in 1 .. Attempts
      /\ attempt[r] \in 1 .. Tries(asked[r])
  BY <1>1, AskedTypes
<1>3. CASE attempt[r] < Tries(asked[r]) /\ Send(r, attempt[r] + 1) /\ UNCHANGED answer
  <2>1. attempt[r] + 1 \in Copies /\ attempt[r] + 1 \in 1 .. Tries(asked[r])
    BY <1>2, <1>3, CartAssumption DEF Copies
  <2>2. asked' = [asked EXCEPT ![r] = asked[r]]
    BY <1>1, InvTypes
  <2>3. QED
    BY <1>1, <1>2, <1>3, <2>1, <2>2, SendInv
<1>4. CASE answer' = [answer EXCEPT ![r] = "failed"] /\ UNCHANGED <<attempt, handler, since>>
  BY <1>1, <1>4, AnswerInv
<1>5. QED
  BY <1>3, <1>4 DEF RequestError

LEMMA ReplyInv ==
    ASSUME CartInv, NEW r \in Requests, Reply(r)
    PROVE  CartInv'
<1>1. /\ asked[r] # Nothing /\ UNCHANGED <<cart, asked, attempt, handler, since, faults>>
      /\ answer' = [answer EXCEPT ![r] = Told[handler[r][attempt[r]].pc]]
  BY DEF Reply, Waiting
<1>2. Told[handler[r][attempt[r]].pc] \in {"ok", "refused", "failed"}
  BY DEF Reply, Told
<1>3. faults' \in 0 .. MaxFaults
  BY <1>1, InvTypes
<1>4. QED
  BY <1>1, <1>2, <1>3, AnswerInv

\* One open handler moves and the cart does not.
LEMMA LeavesInv ==
    ASSUME CartInv, NEW r \in Requests, NEW k \in Copies, NEW h \in Handlers, Leaves(r, k, h),
           handler[r][k].pc \in Open, h.pc # "none", OneLine(h.seen),
           h.pc \in {"read", "unsure"} => HasRead(r, k, h.seen),
           faults' \in 0 .. MaxFaults
    PROVE  CartInv'
<1>1. /\ handler' \in [Requests -> [Copies -> Handlers]]
      /\ handler'[r][k] = h
      /\ \A s \in Requests, j \in Copies : <<s, j>> # <<r, k>> => handler'[s][j] = handler[s][j]
  <2>1. Moves(r, k, h)
    BY DEF Leaves, Moves
  <2>2. QED
    BY <2>1, OneHandler
<1>2. /\ since' \in [Requests -> [Copies -> SUBSET [Products -> Nat]]]
      /\ h.pc \in Open => since'[r][k] = since[r][k]
      /\ \A s \in Requests, j \in Copies : <<s, j>> # <<r, k>> => since'[s][j] = since[s][j]
  <2> DEFINE found == IF h.pc \in Open THEN since[r][k] ELSE {}
  <2>1. since' = [since EXCEPT ![r][k] = found]
    BY DEF Leaves
  <2>2. since \in [Requests -> [Copies -> SUBSET [Products -> Nat]]]
    BY InvTypes
  <2>3. found \in SUBSET [Products -> Nat]
    BY <2>2
  <2>4. h.pc \in Open => found = since[r][k]
    OBVIOUS
  <2> HIDE DEF found
  <2>5. QED
    BY <2>1, <2>2, <2>3, <2>4, NestedChange
<1>3. UNCHANGED <<cart, asked, attempt, answer>> /\ Goods(cart)' = Goods(cart)
  BY DEF Leaves, Goods
<1>4. ASSUME NEW s \in Requests, NEW j \in Copies
      PROVE  HandlerOK(s, j)'
  <2>1. HandlerOK(s, j)
    BY DEF CartInv
  <2>2. CASE <<s, j>> # <<r, k>>
    <3>1. handler'[s][j] = handler[s][j] /\ since'[s][j] = since[s][j]
      BY <1>1, <1>2, <2>2
    <3>2. handler[s][j].pc \in Open => Goods(cart)' \in since'[s][j]
      BY <1>3, <2>1, <3>1 DEF HandlerOK
    <3>3. QED
      BY <1>3, <3>1, <3>2, HandlerStays
  <2>3. CASE s = r /\ j = k
    <3>1. k <= attempt'[r] /\ Goods(cart) \in since[r][k]
      BY <1>3, <2>1, <2>3, Stages DEF HandlerOK
    <3>2. h.pc \in {"read", "unsure"} => HasRead(r, k, h.seen)'
      <4>1. SUFFICES ASSUME h.pc \in {"read", "unsure"} PROVE HasRead(r, k, h.seen)'
        OBVIOUS
      <4>2. HasRead(r, k, h.seen) /\ since'[r][k] = since[r][k] /\ asked' = asked
        BY <1>2, <1>3, <4>1, Stages
      <4>3. QED
        BY <4>2 DEF HasRead, InCart
    <3>3. h.pc \in Open => Goods(cart)' \in since'[r][k]
      BY <1>2, <1>3, <3>1
    <3>4. QED
      BY <1>1, <2>3, <3>1, <3>2, <3>3 DEF HandlerOK
  <2>4. QED
    BY <2>2, <2>3
<1>5. cart' \in Carts /\ answer' \in [Requests -> {"none", "ok", "refused", "failed"}]
  BY <1>3, InvTypes
<1>6. QED
  BY <1>1, <1>2, <1>3, <1>4, <1>5, NothingSent

\* The handler GetCart leaves, and the reason for a 404.
LEMMA GetCartLeaves ==
    ASSUME CartInv, NEW r \in Requests, NEW k \in Copies, GetCart(r, k)
    PROVE  \E h \in Handlers :
              /\ Leaves(r, k, h) /\ handler[r][k].pc = "sent"
              /\ \/ h.pc = "read" /\ h.seen = cart /\ HasRead(r, k, cart)
                 \/ h.pc = "refused" /\ h.seen = <<>> /\ Promise!Refuses(asked[r], Goods(cart))
<1> DEFINE refuses == asked[r].op # "add" /\ ~InCart(asked[r].product, cart)
           h == IF refuses THEN [NoHandler EXCEPT !.pc = "refused"] ELSE [pc |-> "read", seen |-> cart]
<1>1. /\ handler[r][k].pc = "sent" /\ asked[r].op \in {"add", "update", "remove"}
      /\ Leaves(r, k, h)
  BY DEF GetCart
<1>2. asked[r] \in Operations
  BY <1>1, HandlersAsked
<1>3. cart \in Carts /\ cart \in Seq(Lines)
  BY InvTypes DEF Carts
<1>4. CASE refuses
  <2>1. h \in Handlers /\ h.pc = "refused" /\ h.seen = <<>>
    BY <1>4, Ended, Stages
  <2>2. asked[r].product \in Products
    BY <1>1, <1>2, Asks
  <2>3. Goods(cart)[asked[r].product] = 0
    BY <1>3, <1>4, <2>2, GoodsTyped
  <2>4. Promise!Refuses(asked[r], Goods(cart))
    BY <1>1, <1>4, <2>3 DEF Promise!Refuses
  <2> HIDE DEF h
  <2>5. QED
    BY <1>1, <2>1, <2>4
<1>5. CASE ~refuses
  <2>1. h \in Handlers /\ h.pc = "read" /\ h.seen = cart
    BY <1>3, <1>5, Stages DEF Handlers
  <2>2. Goods(cart) \in since[r][k]
    BY <1>1, Stages DEF CartInv, HandlerOK
  <2>3. HasRead(r, k, cart)
    BY <1>5, <2>2 DEF HasRead
  <2> HIDE DEF h
  <2>4. QED
    BY <1>1, <2>1, <2>3
<1>6. QED
  BY <1>4, <1>5

LEMMA GetCartInv ==
    ASSUME CartInv, NEW r \in Requests, NEW k \in Copies, GetCart(r, k)
    PROVE  CartInv'
<1>1. PICK h \in Handlers :
         /\ Leaves(r, k, h) /\ handler[r][k].pc = "sent"
         /\ \/ h.pc = "read" /\ h.seen = cart /\ HasRead(r, k, cart)
            \/ h.pc = "refused" /\ h.seen = <<>> /\ Promise!Refuses(asked[r], Goods(cart))
  BY GetCartLeaves
<1>2. OneLine(cart) /\ OneLine(<<>>)
  BY DEF CartInv, OneLine
<1>3. faults' \in 0 .. MaxFaults
  BY InvTypes DEF GetCart
<1>4. QED
  BY <1>1, <1>2, <1>3, LeavesInv, Stages

\* The handler an error of Redis leaves.
LEMMA RedisErrorLeaves ==
    ASSUME CartInv, NEW r \in Requests, NEW k \in Copies, RedisError(r, k)
    PROVE  \E h \in Handlers :
              /\ Leaves(r, k, h) /\ handler[r][k].pc \in {"sent", "read"}
              /\ \/ h.pc = "unsure" /\ h.seen = handler[r][k].seen /\ HasRead(r, k, h.seen)
                 \/ h.pc = "error" /\ h.seen = <<>>
<1> DEFINE writing == handler[r][k].pc = "read" \/ asked[r].op \in {"clear", "checkout"}
           h == IF writing THEN [handler[r][k] EXCEPT !.pc = "unsure"] ELSE [NoHandler EXCEPT !.pc = "error"]
<1>1. handler[r][k].pc \in {"sent", "read"} /\ Leaves(r, k, h)
  BY DEF RedisError, Running
<1>2. CASE writing
  <2>1. handler[r][k] \in Handlers
    BY InvTypes
  <2>2. h \in Handlers /\ h.pc = "unsure" /\ h.seen = handler[r][k].seen
    BY <1>2, <2>1, Stages DEF Handlers
  <2>3. HasRead(r, k, handler[r][k].seen)
    BY <1>2 DEF CartInv, HandlerOK, HasRead
  <2> HIDE DEF h
  <2>4. QED
    BY <1>1, <2>2, <2>3
<1>3. CASE ~writing
  <2>1. h \in Handlers /\ h.pc = "error" /\ h.seen = <<>>
    BY <1>3, Ended, Stages
  <2> HIDE DEF h
  <2>2. QED
    BY <1>1, <2>1
<1>4. QED
  BY <1>2, <1>3

LEMMA RedisErrorInv ==
    ASSUME CartInv, NEW r \in Requests, NEW k \in Copies, RedisError(r, k)
    PROVE  CartInv'
<1>1. PICK h \in Handlers :
         /\ Leaves(r, k, h) /\ handler[r][k].pc \in {"sent", "read"}
         /\ \/ h.pc = "unsure" /\ h.seen = handler[r][k].seen /\ HasRead(r, k, h.seen)
            \/ h.pc = "error" /\ h.seen = <<>>
  BY RedisErrorLeaves
<1>2. OneLine(handler[r][k].seen) /\ OneLine(<<>>)
  BY DEF CartInv, HandlerOK, OneLine
<1>3. faults' \in 0 .. MaxFaults
  BY FaultType DEF RedisError
<1>4. QED
  BY <1>1, <1>2, <1>3, LeavesInv, Stages

\* The cart becomes another one, which every open handler may find.
LEMMA BecomesInv ==
    ASSUME CartInv, NEW lines \in Carts, Becomes(lines),
           handler' \in [Requests -> [Copies -> Handlers]],
           \A s \in Requests, j \in Copies :
              \/ handler'[s][j] = handler[s][j]
              \/ handler[s][j].pc # "none" /\ handler'[s][j].pc \in Over /\ handler'[s][j].seen = <<>>
    PROVE  CartInv'
<1>1. cart' = lines /\ UNCHANGED <<asked, attempt, answer, faults>> /\ Goods(cart)' = Goods(lines)
  BY DEF Becomes, Goods
<1>2. Goods(lines) \in [Products -> Nat]
  BY GoodsTyped
<1>3. \A s \in Requests, j \in Copies :
         since'[s][j] = IF handler'[s][j].pc \in Open THEN since[s][j] \cup {Goods(lines)} ELSE {}
  BY DEF Becomes
<1>4. since' \in [Requests -> [Copies -> SUBSET [Products -> Nat]]]
  <2>1. \A s \in Requests, j \in Copies :
           (IF handler'[s][j].pc \in Open THEN since[s][j] \cup {Goods(lines)} ELSE {}) \in SUBSET [Products -> Nat]
    BY <1>2, InvTypes
  <2>2. since' = [s \in Requests |-> [j \in Copies |->
                     IF handler'[s][j].pc \in Open THEN since[s][j] \cup {Goods(lines)} ELSE {}]]
    BY DEF Becomes
  <2>3. QED
    BY <2>1, <2>2
<1>5. ASSUME NEW s \in Requests, NEW j \in Copies
      PROVE  HandlerOK(s, j)'
  <2>1. CASE handler'[s][j] = handler[s][j]
    <3>1. handler[s][j].pc \in Open => since[s][j] \subseteq since'[s][j] /\ Goods(cart)' \in since'[s][j]
      BY <1>1, <1>3, <2>1
    <3>2. QED
      BY <1>1, <2>1, <3>1, HandlerStays
  <2>2. CASE handler[s][j].pc # "none" /\ handler'[s][j].pc \in Over /\ handler'[s][j].seen = <<>>
    <3>1. OneLine(<<>>)
      BY DEF OneLine
    <3>2. j <= attempt'[s]
      BY <1>1, <2>2 DEF CartInv, HandlerOK
    <3>3. QED
      BY <2>2, <3>1, <3>2, Stages DEF HandlerOK
  <2>3. QED
    BY <2>1, <2>2
<1>6. answer' \in [Requests -> {"none", "ok", "refused", "failed"}] /\ faults' \in 0 .. MaxFaults
  BY <1>1, InvTypes
<1>7. QED
  BY <1>1, <1>4, <1>5, <1>6, NothingSent

\* The one handler a write moves.
LEMMA WriteMoves ==
    ASSUME CartInv, NEW r \in Requests, NEW k \in Copies, NEW lines, NEW pc \in Over, Write(r, k, lines, pc)
    PROVE  /\ handler' \in [Requests -> [Copies -> Handlers]]
           /\ handler'[r][k].pc = pc /\ handler'[r][k].seen = <<>>
           /\ \A s \in Requests, j \in Copies : <<s, j>> # <<r, k>> => handler'[s][j] = handler[s][j]
<1> DEFINE h == [NoHandler EXCEPT !.pc = pc]
<1>1. h \in Handlers /\ h.pc = pc /\ h.seen = <<>>
  BY Ended
<1>2. handler' = [handler EXCEPT ![r][k] = h]
  BY DEF Write
<1> HIDE DEF h
<1>3. Moves(r, k, h)
  BY <1>2 DEF Moves
<1>4. QED
  BY <1>1, <1>3, OneHandler

LEMMA WriteInv ==
    ASSUME CartInv, NEW r \in Requests, NEW k \in Copies, NEW lines \in Carts, NEW pc \in Over,
           Write(r, k, lines, pc), handler[r][k].pc # "none"
    PROVE  CartInv'
<1>1. /\ handler' \in [Requests -> [Copies -> Handlers]]
      /\ \A s \in Requests, j \in Copies :
           \/ handler'[s][j] = handler[s][j]
           \/ handler[s][j].pc # "none" /\ handler'[s][j].pc \in Over /\ handler'[s][j].seen = <<>>
  BY WriteMoves
<1>2. Becomes(lines)
  BY DEF Write
<1>3. QED
  BY <1>1, <1>2, BecomesInv

\* What a handler that has read the cart writes, or one that clears it.
LEMMA Writing ==
    ASSUME CartInv, NEW r \in Requests, NEW k \in Copies,
           \/ handler[r][k].pc \in {"read", "unsure"}
           \/ handler[r][k].pc = "sent" /\ asked[r].op \in {"clear", "checkout"}
    PROVE  LET lines == Edited(asked[r], handler[r][k].seen)
           IN  /\ lines \in Carts
               /\ \E g \in since[r][k] : /\ ~Promise!Refuses(asked[r], g)
                                         /\ Goods(lines) = Promise!Effect(asked[r], g)
<1> DEFINE seen == handler[r][k].seen
           lines == Edited(asked[r], seen)
<1>1. handler[r][k].pc # "none" /\ handler[r][k].pc \in Open
  BY Stages
<1>2. asked[r] \in Operations
  BY <1>1, HandlersAsked
<1>3. HandlerOK(r, k)
  BY DEF CartInv
<1>4. CASE asked[r].op \in {"clear", "checkout"}
  <2>1. lines = <<>> /\ Promise!Effect(asked[r], Goods(cart)) = Promise!Empty
    BY <1>4 DEF Edited, Promise!Effect
  <2>2. ~Promise!Refuses(asked[r], Goods(cart)) /\ Goods(cart) \in since[r][k]
    BY <1>1, <1>3, <1>4 DEF Promise!Refuses, HandlerOK
  <2>3. Goods(<<>>) = Promise!Empty /\ <<>> \in Carts
    BY EmptyCart DEF Promise!Empty
  <2> HIDE DEF lines
  <2>4. QED
    BY <2>1, <2>2, <2>3 DEF lines
<1>5. CASE asked[r].op \notin {"clear", "checkout"}
  <2>1. asked[r].op \in {"add", "update", "remove"} /\ handler[r][k].pc \in {"read", "unsure"}
    BY <1>2, <1>5, Asks
  <2>2. HasRead(r, k, seen)
    BY <1>3, <2>1 DEF HandlerOK
  <2>3. seen \in Carts
    <3>1. seen \in Seq(Lines)
      BY InvTypes DEF Handlers
    <3>2. QED
      BY <1>3, <3>1 DEF Carts, HandlerOK
  <2>4. Goods(seen) \in since[r][k] /\ (asked[r].op # "add" => InCart(asked[r].product, seen))
    BY <1>5, <2>2 DEF HasRead
  <2>5. /\ lines \in Carts /\ Goods(lines) = Promise!Effect(asked[r], Goods(seen))
        /\ ~Promise!Refuses(asked[r], Goods(seen))
    BY <1>2, <2>1, <2>3, <2>4, EditedCart
  <2>6. QED
    BY <2>4, <2>5
<1>6. QED
  BY <1>4, <1>5

LEMMA NextInv == CartInv /\ [Next]_vars => CartInv'
<1> SUFFICES ASSUME CartInv, [Next]_vars PROVE CartInv'
  OBVIOUS
<1>1. ASSUME NEW r \in Requests, NEW req \in Operations, Ask(r, req)
      PROVE  CartInv'
  BY <1>1, AskInv
<1>2. ASSUME NEW r \in Requests, RequestError(r)
      PROVE  CartInv'
  BY <1>2, RequestErrorInv
<1>3. ASSUME NEW r \in Requests, Reply(r)
      PROVE  CartInv'
  BY <1>3, ReplyInv
<1>4. ASSUME NEW r \in Requests, NEW k \in Copies, GetCart(r, k)
      PROVE  CartInv'
  BY <1>4, GetCartInv
<1>5. ASSUME NEW r \in Requests, NEW k \in Copies, SetCart(r, k)
      PROVE  CartInv'
  <2>1. handler[r][k].pc = "read" /\ Write(r, k, Edited(asked[r], handler[r][k].seen), "written")
    BY <1>5 DEF SetCart
  <2>2. Edited(asked[r], handler[r][k].seen) \in Carts
    BY <2>1, Writing
  <2>3. QED
    BY <2>1, <2>2, WriteInv, Stages
<1>6. ASSUME NEW r \in Requests, NEW k \in Copies, clear_cart(r, k)
      PROVE  CartInv'
  BY <1>6, EmptyCart, WriteInv, Stages DEF clear_cart
<1>7. ASSUME NEW r \in Requests, NEW k \in Copies, RedisError(r, k)
      PROVE  CartInv'
  BY <1>7, RedisErrorInv
<1>8. ASSUME NEW r \in Requests, NEW k \in Copies, WriteUnanswered(r, k)
      PROVE  CartInv'
  <2>1. handler[r][k].pc = "unsure" /\ Write(r, k, Edited(asked[r], handler[r][k].seen), "lost")
    BY <1>8 DEF WriteUnanswered
  <2>2. Edited(asked[r], handler[r][k].seen) \in Carts
    BY <2>1, Writing
  <2>3. QED
    BY <2>1, <2>2, WriteInv, Stages
<1>9. ASSUME Expire
      PROVE  CartInv'
  <2>1. Becomes(<<>>) /\ handler' = handler
    BY <1>9 DEF Expire
  <2>2. QED
    BY <2>1, EmptyCart, InvTypes, BecomesInv
<1>10. ASSUME UNCHANGED vars
       PROVE  CartInv'
  <2>1. UNCHANGED <<cart, asked, attempt, handler, answer, since, faults>> /\ Goods(cart)' = Goods(cart)
    BY <1>10 DEF vars, Goods
  <2>2. \A s \in Requests, j \in Copies : HandlerOK(s, j)
    BY DEF CartInv
  <2>3. \A s \in Requests, j \in Copies : HandlerOK(s, j)'
    BY <2>1, <2>2, HandlerStays DEF HandlerOK
  <2>4. QED
    BY <2>1, <2>3, InvTypes, NothingSent
<1>11. QED
  BY <1>1, <1>2, <1>3, <1>4, <1>5, <1>6, <1>7, <1>8, <1>9, <1>10 DEF Next

\* Requests, forwards and handlers stay in step, every cart that is held has one
\* line per product, and what a handler has read was the cart at some time since
\* its copy was sent (cart main.py:86-164, gateway main.py:142-167).
THEOREM CartInOrder == Spec => []CartInv
<1>1. QED
  BY InitInv, NextInv, PTL DEF Spec

\* The state keeps its types; above all the quantity of every line stays positive,
\* whatever handlers overlap or are forwarded again (cart main.py:54-64).
THEOREM TypeCorrect == Spec => []TypeOK
<1>1. CartInv => TypeOK
  BY DEF CartInv
<1>2. QED
  BY <1>1, CartInOrder, PTL

\* No two lines of the cart in Redis are of one product (cart main.py:102-112).
THEOREM OneLineEach == Spec => []OneLinePerProduct
<1>1. CartInv => OneLinePerProduct
  BY DEF CartInv, OneLine, OneLinePerProduct
<1>2. QED
  BY <1>1, CartInOrder, PTL

-----------------------------------------------------------------------------
(* The cart keeps the promise: what it adds up to and what has become of   *)
(* each copy take the steps of CartPromise.                                *)

Forward == [r \in Requests |-> [k \in Copies |-> Outcome[handler[r][k].pc]]]
promised == <<Goods(cart), asked, Forward, answer, since>>

LEMMA Outcomes ==
    /\ Outcome["none"] = "none" /\ Outcome["refused"] = "refused" /\ Outcome["error"] = "failed"
    /\ \A pc \in Open : Outcome[pc] = "open"
    /\ Outcome["written"] = "applied" /\ Outcome["lost"] = "applied"
  BY Stages DEF Outcome

LEMMA ForwardOf ==
    ASSUME CartInv, NEW r \in Requests, NEW k \in Copies
    PROVE  /\ Forward[r][k] = Outcome[handler[r][k].pc]
           /\ Forward[r][k] # "none" <=> handler[r][k].pc # "none"
           /\ Forward[r][k] = "open" <=> handler[r][k].pc \in Open
<1>1. Forward[r][k] = Outcome[handler[r][k].pc]
  BY DEF Forward
<1>2. handler[r][k].pc \in {"none"} \cup Open \cup Over
  BY InvTypes DEF Handlers
<1>3. QED
  BY <1>1, <1>2, Outcomes, Stages

\* One handler moves, and one forward with it, or none that the customer sees.
LEMMA ForwardMoves ==
    ASSUME CartInv, NEW r \in Requests, NEW k \in Copies, NEW h \in Handlers, Moves(r, k, h)
    PROVE  /\ Forward' = [Forward EXCEPT ![r][k] = Outcome[h.pc]]
           /\ handler[r][k].pc \in Open /\ h.pc \in Open => Forward' = Forward
<1>1. /\ handler'[r][k] = h
      /\ \A s \in Requests, j \in Copies : <<s, j>> # <<r, k>> => handler'[s][j] = handler[s][j]
  BY OneHandler
<1>2. ASSUME NEW s \in Requests
      PROVE  Forward'[s] = [Forward EXCEPT ![r][k] = Outcome[h.pc]][s]
  <2>1. Forward'[s] = [j \in Copies |-> Outcome[handler'[s][j].pc]]
    BY DEF Forward
  <2>2. CASE s = r
    <3>1. [Forward EXCEPT ![r][k] = Outcome[h.pc]][r] = [Forward[r] EXCEPT ![k] = Outcome[h.pc]]
      BY DEF Forward
    <3>2. Forward[r] = [j \in Copies |-> Outcome[handler[r][j].pc]]
      BY DEF Forward
    <3>3. \A j \in Copies : handler'[r][j] = IF j = k THEN h ELSE handler[r][j]
      BY <1>1
    <3>4. QED
      BY <2>1, <2>2, <3>1, <3>2, <3>3
  <2>3. CASE s # r
    <3>1. [Forward EXCEPT ![r][k] = Outcome[h.pc]][s] = [j \in Copies |-> Outcome[handler[s][j].pc]]
      BY <2>3 DEF Forward
    <3>2. QED
      BY <1>1, <2>1, <2>3, <3>1
  <2>4. QED
    BY <2>2, <2>3
<1>3. Forward' = [Forward EXCEPT ![r][k] = Outcome[h.pc]]
  <2>1. /\ Forward' = [s \in Requests |-> Forward'[s]]
        /\ Forward = [s \in Requests |-> Forward[s]]
    BY DEF Forward
  <2> HIDE DEF Forward
  <2>2. QED
    BY <1>2, <2>1
<1>4. ASSUME handler[r][k].pc \in Open, h.pc \in Open
      PROVE  Forward' = Forward
  <2>1. Outcome[h.pc] = Forward[r][k]
    BY <1>4, ForwardOf, Outcomes
  <2>2. Forward = [Forward EXCEPT ![r][k] = Forward[r][k]]
    BY DEF Forward
  <2>3. QED
    BY <1>3, <2>1, <2>2
<1>5. QED
  BY <1>3, <1>4

\* The copy the gateway waits for is the last that has been sent.
LEMMA LastCopy ==
    ASSUME CartInv, NEW r \in Requests, asked[r] # Nothing
    PROVE  Promise!Last(r, attempt[r]) /\ attempt[r] \in Promise!Forwards
<1>1. attempt[r] \in Copies /\ handler[r][attempt[r]].pc # "none"
  BY AskedTypes
<1>2. Forward[r][attempt[r]] # "none"
  BY <1>1, ForwardOf
<1>3. ASSUME NEW j \in Copies, Forward[r][j] # "none"
      PROVE  j <= attempt[r]
  BY <1>3, ForwardOf DEF CartInv, HandlerOK
<1>4. QED
  BY <1>1, <1>2, <1>3 DEF Promise!Last, Promise!Forwards, Copies, Forward

LEMMA SendKeeps ==
    ASSUME CartInv, NEW r \in Requests, NEW k \in Copies, Send(r, k), k = attempt[r] + 1,
           UNCHANGED <<cart, answer>>
    PROVE  Promise!Send(r, k)
<1> DEFINE h == [handler[r][k] EXCEPT !.pc = "sent"]
<1>1. h \in Handlers /\ h.pc = "sent" /\ Moves(r, k, h)
  BY NextCopy DEF Send
<1> HIDE DEF h
<1>2. Forward' = [Forward EXCEPT ![r][k] = "open"]
  BY <1>1, ForwardMoves, Outcomes, Stages
<1>3. since' = [since EXCEPT ![r][k] = {Goods(cart)}] /\ Goods(cart)' = Goods(cart) /\ answer' = answer
  BY DEF Send, Goods
<1>4. QED
  BY <1>2, <1>3 DEF Promise!Send, Forward

LEMMA AskKeeps ==
    ASSUME CartInv, NEW r \in Requests, NEW req \in Operations, Ask(r, req)
    PROVE  Promise!Ask(r, req)
<1>1. /\ asked[r] = Nothing /\ Send(r, 1) /\ UNCHANGED <<cart, answer>>
      /\ asked' = [asked EXCEPT ![r] = req]
  BY DEF Ask
<1>2. 1 \in Copies /\ 1 = attempt[r] + 1
  BY <1>1, CartAssumption DEF Copies, CartInv, RequestOK
<1>3. Promise!Send(r, 1)
  BY <1>1, <1>2, SendKeeps
<1>4. QED
  BY <1>1, <1>3 DEF Promise!Ask, Nothing, Promise!Nothing

\* An answer is a failure or what the last copy came to.
LEMMA AnswerKeeps ==
    ASSUME CartInv, NEW r \in Requests, asked[r] # Nothing, answer[r] = "none",
           NEW told \in {"ok", "refused", "failed"},
           told = "ok" => Forward[r][attempt[r]] = "applied",
           told = "refused" => Forward[r][attempt[r]] = "refused",
           answer' = [answer EXCEPT ![r] = told], UNCHANGED <<cart, asked, handler, since>>
    PROVE  Promise!Answer(r, attempt[r]) /\ attempt[r] \in Promise!Forwards
<1>1. Promise!Last(r, attempt[r]) /\ attempt[r] \in Promise!Forwards
  BY LastCopy
<1>2. Goods(cart)' = Goods(cart) /\ Forward' = Forward
  BY DEF Goods, Forward
<1>3. QED
  BY <1>1, <1>2 DEF Promise!Answer, Forward

LEMMA RequestErrorKeeps ==
    ASSUME CartInv, NEW r \in Requests, RequestError(r)
    PROVE  \E k \in Promise!Forwards : Promise!ForwardAgain(r, k) \/ Promise!Answer(r, k)
<1>1. asked[r] # Nothing /\ answer[r] = "none" /\ UNCHANGED <<cart, asked>>
  BY DEF RequestError, Waiting
<1>2. CASE attempt[r] < Tries(asked[r]) /\ Send(r, attempt[r] + 1) /\ UNCHANGED answer
  <2>1. attempt[r] \in 1 .. Tries(asked[r]) /\ Tries(asked[r]) \in 1 .. Attempts
    BY <1>1, AskedTypes
  <2>2. attempt[r] + 1 \in Copies
    BY <1>2, <2>1, CartAssumption DEF Copies
  <2>3. PICK k \in Copies : k = attempt[r] + 1
    BY <2>2
  <2>4. Send(r, k) /\ UNCHANGED <<cart, answer>>
    BY <1>1, <1>2, <2>3 DEF Send
  <2>5. Promise!Send(r, k)
    BY <2>3, <2>4, SendKeeps
  <2>6. PICK j \in Promise!Forwards : j = attempt[r] /\ Promise!Last(r, j)
    BY <1>1, LastCopy
  <2>7. j < Promise!Tries(asked[r]) /\ j + 1 = k
    BY <1>2, <2>3, <2>6 DEF Tries, Promise!Tries
  <2>8. Promise!ForwardAgain(r, j)
    BY <1>1, <2>5, <2>6, <2>7 DEF Promise!ForwardAgain
  <2>9. QED
    BY <2>8
<1>3. CASE answer' = [answer EXCEPT ![r] = "failed"] /\ UNCHANGED <<attempt, handler, since>>
  BY <1>1, <1>3, AnswerKeeps
<1>4. QED
  BY <1>2, <1>3 DEF RequestError

LEMMA ReplyKeeps ==
    ASSUME CartInv, NEW r \in Requests, Reply(r)
    PROVE  \E k \in Promise!Forwards : Promise!Answer(r, k)
<1> DEFINE pc == handler[r][attempt[r]].pc
<1>1. /\ asked[r] # Nothing /\ answer[r] = "none" /\ UNCHANGED <<cart, asked, handler, since>>
      /\ pc \in {"written", "refused", "error", "unsure", "lost"}
      /\ answer' = [answer EXCEPT ![r] = Told[pc]]
  BY DEF Reply, Waiting, Told
<1>2. attempt[r] \in Copies
  BY <1>1, AskedTypes
<1>3. Forward[r][attempt[r]] = Outcome[pc]
  BY <1>2, ForwardOf
<1> HIDE DEF pc
<1>4. /\ Told[pc] \in {"ok", "refused", "failed"}
      /\ Told[pc] = "ok" => pc = "written"
      /\ Told[pc] = "refused" => pc = "refused"
  BY <1>1 DEF Told
<1>5. QED
  BY <1>1, <1>3, <1>4, Outcomes, AnswerKeeps

\* A handler that is still open changes nothing the customer relies on; one that
\* is over has ended its copy.
LEMMA LeavesKeeps ==
    ASSUME CartInv, NEW r \in Requests, NEW k \in Copies, NEW h \in Handlers, Leaves(r, k, h),
           handler[r][k].pc \in Open,
           h.pc \in Open \cup {"refused", "error"},
           h.pc = "refused" => Promise!Refuses(asked[r], Goods(cart))
    PROVE  Promise!End(r, k) \/ UNCHANGED promised
<1>1. /\ Moves(r, k, h) /\ UNCHANGED <<cart, asked, answer>> /\ Goods(cart)' = Goods(cart)
      /\ since' = [since EXCEPT ![r][k] = IF h.pc \in Open THEN since[r][k] ELSE {}]
  BY DEF Leaves, Moves, Goods
<1>2. since \in [Requests -> [Copies -> SUBSET [Products -> Nat]]]
  BY InvTypes
<1>3. CASE h.pc \in Open
  <2>1. Forward' = Forward
    BY <1>1, <1>3, ForwardMoves
  <2>2. since' = since
    <3>1. since' = [since EXCEPT ![r][k] = since[r][k]]
      BY <1>1, <1>3
    <3>2. QED
      BY <1>2, <3>1
  <2>3. QED
    BY <1>1, <2>1, <2>2 DEF promised
<1>4. CASE h.pc \in {"refused", "error"}
  <2>1. h.pc \notin Open /\ Outcome[h.pc] \in {"refused", "failed"}
    BY <1>4, Outcomes, Stages
  <2>2. Forward' = [Forward EXCEPT ![r][k] = Outcome[h.pc]]
    BY <1>1, ForwardMoves
  <2>3. since' = [since EXCEPT ![r][k] = {}]
    BY <1>1, <2>1
  <2>4. Outcome[h.pc] = "refused" => \E g \in since[r][k] : Promise!Refuses(asked[r], g)
    <3>1. Outcome[h.pc] = "refused" => h.pc = "refused"
      BY <1>4, Outcomes
    <3>2. Goods(cart) \in since[r][k]
      BY DEF CartInv, HandlerOK
    <3>3. QED
      BY <3>1, <3>2
  <2>5. Forward[r][k] = "open"
    BY ForwardOf
  <2>6. Promise!End(r, k)
    BY <1>1, <2>1, <2>2, <2>3, <2>4, <2>5 DEF Promise!End, Forward
  <2>7. QED
    BY <2>6
<1>5. QED
  BY <1>3, <1>4

LEMMA GetCartKeeps ==
    ASSUME CartInv, NEW r \in Requests, NEW k \in Copies, GetCart(r, k)
    PROVE  Promise!End(r, k) \/ UNCHANGED promised
  BY GetCartLeaves, LeavesKeeps, Stages

LEMMA RedisErrorKeeps ==
    ASSUME CartInv, NEW r \in Requests, NEW k \in Copies, RedisError(r, k)
    PROVE  Promise!End(r, k) \/ UNCHANGED promised
  BY RedisErrorLeaves, LeavesKeeps, Stages

LEMMA BecomesKeeps ==
    ASSUME CartInv, NEW lines \in Carts, Becomes(lines), handler' \in [Requests -> [Copies -> Handlers]]
    PROVE  Promise!Becomes(Goods(lines))
<1>1. Goods(cart)' = Goods(lines) /\ UNCHANGED <<asked, answer>>
  BY DEF Becomes, Goods
<1>2. ASSUME NEW s \in Requests, NEW j \in Copies
      PROVE  Forward'[s][j] = "open" <=> handler'[s][j].pc \in Open
  <2>1. Forward'[s][j] = Outcome[handler'[s][j].pc]
    BY DEF Forward
  <2>2. handler'[s][j].pc \in {"none"} \cup Open \cup Over
    BY DEF Handlers
  <2>3. QED
    BY <2>1, <2>2, Outcomes, Stages
<1>3. since' = [s \in Requests |-> [j \in Copies |->
                   IF Forward'[s][j] = "open" THEN since[s][j] \cup {Goods(lines)} ELSE {}]]
  <2>1. since' = [s \in Requests |-> [j \in Copies |->
                     IF handler'[s][j].pc \in Open THEN since[s][j] \cup {Goods(lines)} ELSE {}]]
    BY DEF Becomes
  <2> HIDE DEF Forward
  <2>2. QED
    BY <1>2, <2>1
<1>4. QED
  BY <1>1, <1>3 DEF Promise!Becomes, Promise!Forwards, Copies, Forward

\* A write takes effect on a cart that has been current.
LEMMA WriteKeeps ==
    ASSUME CartInv, NEW r \in Requests, NEW k \in Copies, NEW pc \in {"written", "lost"},
           Write(r, k, Edited(asked[r], handler[r][k].seen), pc),
           \/ handler[r][k].pc \in {"read", "unsure"}
           \/ handler[r][k].pc = "sent" /\ asked[r].op \in {"clear", "checkout"}
    PROVE  Promise!Apply(r, k)
<1> DEFINE h == [NoHandler EXCEPT !.pc = pc]
<1>1. PICK lines \in Carts : lines = Edited(asked[r], handler[r][k].seen)
  BY Writing
<1>2. PICK g \in since[r][k] : ~Promise!Refuses(asked[r], g) /\ Goods(lines) = Promise!Effect(asked[r], g)
  BY <1>1, Writing
<1>3. handler' = [handler EXCEPT ![r][k] = h] /\ Becomes(lines)
  BY <1>1 DEF Write, Becomes
<1>4. h \in Handlers /\ h.pc = pc
  BY Ended, Stages
<1> HIDE DEF h
<1>5. Moves(r, k, h)
  BY <1>3 DEF Moves
<1>6. Forward' = [Forward EXCEPT ![r][k] = "applied"] /\ handler' \in [Requests -> [Copies -> Handlers]]
  BY <1>4, <1>5, ForwardMoves, OneHandler, Outcomes
<1>7. Promise!Becomes(Goods(lines))
  BY <1>3, <1>6, BecomesKeeps
<1>8. Forward[r][k] = "open"
  BY ForwardOf, Stages
<1>9. /\ Goods(cart)' = Promise!Effect(asked[r], g) /\ UNCHANGED <<asked, answer>>
      /\ since' = [s \in Requests |-> [j \in Promise!Forwards |->
                      IF Forward'[s][j] = "open" THEN since[s][j] \cup {Promise!Effect(asked[r], g)} ELSE {}]]
  BY <1>2, <1>7 DEF Promise!Becomes, Forward
<1>10. QED
  BY <1>2, <1>6, <1>8, <1>9 DEF Promise!Apply, Promise!Becomes, Forward

LEMMA SetCartKeeps ==
    ASSUME CartInv, NEW r \in Requests, NEW k \in Copies, SetCart(r, k)
    PROVE  Promise!Apply(r, k)
  BY WriteKeeps DEF SetCart

LEMMA WriteUnansweredKeeps ==
    ASSUME CartInv, NEW r \in Requests, NEW k \in Copies, WriteUnanswered(r, k)
    PROVE  Promise!Apply(r, k)
  BY WriteKeeps DEF WriteUnanswered

LEMMA ClearCartKeeps ==
    ASSUME CartInv, NEW r \in Requests, NEW k \in Copies, clear_cart(r, k)
    PROVE  Promise!Apply(r, k)
<1>1. /\ handler[r][k].pc = "sent" /\ Write(r, k, <<>>, "written")
      /\ asked[r].op \in {"clear", "checkout"}
  BY DEF clear_cart
<1>2. Edited(asked[r], handler[r][k].seen) = <<>>
  BY <1>1 DEF Edited
<1>3. QED
  BY <1>1, <1>2, WriteKeeps

LEMMA ExpireKeeps ==
    ASSUME CartInv, Expire
    PROVE  Promise!Expire
<1>1. Becomes(<<>>) /\ handler' = handler
  BY DEF Expire
<1>2. Promise!Becomes(Goods(<<>>))
  BY <1>1, EmptyCart, InvTypes, BecomesKeeps
<1>3. Goods(<<>>) = Promise!Empty
  BY EmptyCart DEF Promise!Empty
<1>4. Forward' = Forward
  BY <1>1 DEF Forward
<1>5. QED
  BY <1>2, <1>3, <1>4 DEF Promise!Expire, Forward

LEMMA InitKeeps == Init => Promise!Init
<1> SUFFICES ASSUME Init PROVE Promise!Init
  OBVIOUS
<1>1. Goods(cart) = Promise!Empty
  BY EmptyCart DEF Init, Promise!Empty
<1>2. ASSUME NEW r \in Requests, NEW k \in Copies
      PROVE  Outcome[handler[r][k].pc] = "none"
  BY NoHandlerType, Outcomes DEF Init
<1>3. Forward = [r \in Requests |-> [k \in Copies |-> "none"]]
  BY <1>2 DEF Forward
<1>4. /\ asked = [r \in Requests |-> Promise!Nothing] /\ answer = [r \in Requests |-> "none"]
      /\ since = [r \in Requests |-> [k \in Copies |-> {}]]
  BY DEF Init, Nothing, Promise!Nothing
<1>5. QED
  BY <1>1, <1>3, <1>4 DEF Promise!Init, Promise!Forwards, Copies, Forward

LEMMA NextKeeps == CartInv /\ [Next]_vars => Promise!Next \/ UNCHANGED promised
<1> SUFFICES ASSUME CartInv, [Next]_vars PROVE Promise!Next \/ UNCHANGED promised
  OBVIOUS
<1>1. Operations = Promise!Operations /\ Copies = Promise!Forwards
  BY DEF Operations, Promise!Operations, Copies, Promise!Forwards
<1>2. ASSUME NEW r \in Requests, NEW req \in Operations, Ask(r, req)
      PROVE  Promise!Next
  <2>1. Promise!Ask(r, req)
    BY <1>2, AskKeeps
  <2>2. QED
    BY <1>1, <2>1 DEF Promise!Next
<1>3. ASSUME NEW r \in Requests, RequestError(r) \/ Reply(r)
      PROVE  Promise!Next
  <2>1. \E k \in Promise!Forwards : Promise!ForwardAgain(r, k) \/ Promise!Answer(r, k)
    BY <1>3, RequestErrorKeeps, ReplyKeeps
  <2>2. QED
    BY <2>1 DEF Promise!Next
<1>4. ASSUME NEW r \in Requests, NEW k \in Copies, GetCart(r, k) \/ RedisError(r, k)
      PROVE  Promise!Next \/ UNCHANGED promised
  <2>1. Promise!End(r, k) \/ UNCHANGED promised
    BY <1>4, GetCartKeeps, RedisErrorKeeps
  <2>2. QED
    BY <1>1, <2>1 DEF Promise!Next
<1>5. ASSUME NEW r \in Requests, NEW k \in Copies,
             SetCart(r, k) \/ clear_cart(r, k) \/ WriteUnanswered(r, k)
      PROVE  Promise!Next
  <2>1. Promise!Apply(r, k)
    BY <1>5, SetCartKeeps, ClearCartKeeps, WriteUnansweredKeeps
  <2>2. QED
    BY <1>1, <2>1 DEF Promise!Next
<1>6. ASSUME Expire
      PROVE  Promise!Next
  <2>1. Promise!Expire
    BY <1>6, ExpireKeeps
  <2>2. QED
    BY <2>1 DEF Promise!Next
<1>7. ASSUME UNCHANGED vars
      PROVE  UNCHANGED promised
  BY <1>7 DEF vars, promised, Goods, Forward
<1>8. QED
  BY <1>2, <1>3, <1>4, <1>5, <1>6, <1>7 DEF Next

\* The cart behind the gateway keeps the promise: a forward takes effect at most
\* once, on a cart that was current after it was sent, whatever expires or fails
\* meanwhile; a 200 or a 404 is what became of the last one, and there is another
\* only for want of an answer (cart main.py:67, 86-164, gateway main.py:142-167).
THEOREM KeepsThePromise == Spec => ImplementsPromise
<1>1. CartInv /\ [Next]_vars => [Promise!Next]_(Promise!promiseVars)
  BY NextKeeps DEF promised, Promise!promiseVars, Forward
<1>2. QED
  BY InitKeeps, <1>1, CartInOrder, PTL DEF Spec, ImplementsPromise, Promise!Spec
=============================================================================
