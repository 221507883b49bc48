------------------------- MODULE AgentOptionsProofs -------------------------
(***************************************************************************)
(* Proofs for AgentOptions: what the parser and the application of options *)
(* do for texts of any length.  Induction is over sets of numbers, since   *)
(* it is about functions that are defined by recursion.                    *)
(***************************************************************************)
EXTENDS AgentOptions, WellFoundedInduction, TLAPS

Blank  == Words \union {Space}
Tokens == Words \union {Space, Quote, Comma, Equals}

\* A text with the end of the input behind it.
Ended(s) ==
    /\ s \in Seq(Tokens \union {EOI})
    /\ Len(s) \in Nat \ {0} /\ s[Len(s)] = EOI
    /\ \A i \in 1..Len(s) - 1 : s[i] \in Tokens

LEMMA Least ==
  ASSUME NEW S, S \subseteq Nat, S # {}
  PROVE  \E x \in S : \A y \in S : x <= y
<1>1. PICK x \in S : \A y \in S : <<y, x>> \notin OpToRel(<, Nat)
  BY NatLessThanWellFounded, WFMin
<1>2. \A y \in S : ~(y < x)
  BY <1>1 DEF OpToRel
<1> QED
  BY <1>2

LEMMA StrongInduction ==
  ASSUME NEW S, \A n \in Nat : (\A m \in 0..n - 1 : m \in S) => n \in S
  PROVE  \A n \in Nat : n \in S
<1> DEFINE T == Nat \ S
<1>1. SUFFICES ASSUME T # {} PROVE FALSE
  OBVIOUS
<1>2. T \subseteq Nat
  OBVIOUS
<1>3. PICK x \in T : \A y \in T : x <= y
  <2> HIDE DEF T
  <2> QED
    BY <1>1, <1>2, Least
<1> QED
  BY <1>3

-----------------------------------------------------------------------------
(* Scanning.                                                               *)

LEMMA TokensDiffer ==
  /\ EOI \notin Tokens /\ EOI \notin Blank /\ Quote \notin Blank /\ Equals \notin Blank
  /\ Comma \notin Blank /\ Space \notin Words
  /\ Space # EOI /\ Space # Quote /\ Space # Equals /\ Space # Comma
  /\ Comma # Equals /\ Quote # Equals /\ Quote # Comma /\ Quote # EOI /\ Equals # EOI /\ Comma # EOI
  /\ Names \subseteq Words
BY OptionsAssumption DEF EOI, Comma, Equals, Quote, Space, Tokens, Blank

IsPast(s, i, tokens, j) ==
    /\ j \in i..Len(s) /\ s[j] \notin tokens
    /\ \A k \in i..j - 1 : s[k] \in tokens

LEMMA PastIs ==
  ASSUME NEW s, Len(s) \in Nat, NEW i \in 1..Len(s), NEW tokens, s[Len(s)] \notin tokens
  PROVE  IsPast(s, i, tokens, Past(s, i, tokens))
<1> DEFINE S == {j \in i..Len(s) : s[j] \notin tokens}
<1>1. S \subseteq Nat /\ Len(s) \in S
  OBVIOUS
<1>2. PICK j \in S : \A k \in S : j <= k
  <2> HIDE DEF S
  <2> QED
    BY <1>1, Least
<1>3. j \in i..Len(s) /\ s[j] \notin tokens
  OBVIOUS
<1>4. ASSUME NEW k \in i..j - 1 PROVE s[k] \in tokens
  BY <1>2, <1>4
<1> QED
  BY <1>3, <1>4 DEF Past, IsPast

LEMMA PastUnique ==
  ASSUME NEW s, Len(s) \in Nat, NEW i \in 1..Len(s), NEW tokens, NEW j,
         IsPast(s, i, tokens, j)
  PROVE  Past(s, i, tokens) = j
<1> DEFINE p == Past(s, i, tokens)
<1>1. IsPast(s, i, tokens, p)
  BY DEF IsPast, Past
<1>2. p \in Int /\ j \in Int
  BY <1>1 DEF IsPast
<1>3. ~(p < j)
  BY <1>1, <1>2 DEF IsPast
<1>4. ~(j < p)
  BY <1>1, <1>2 DEF IsPast
<1> QED
  BY <1>2, <1>3, <1>4

\* There is a next place behind everything but the end.
LEMMA Further ==
  ASSUME NEW s, Ended(s), NEW j \in 1..Len(s), s[j] # EOI
  PROVE  j + 1 \in 1..Len(s)
<1>1. j # Len(s)
  BY DEF Ended
<1> QED
  BY <1>1 DEF Ended

LEMMA SkipIs ==
  ASSUME NEW s, Ended(s), NEW i \in 1..Len(s)
  PROVE  /\ Skip(s, i) \in i..Len(s) /\ s[Skip(s, i)] # Space
         /\ \A k \in i..Skip(s, i) - 1 : s[k] = Space
<1>1. s[Len(s)] \notin {Space}
  BY TokensDiffer DEF Ended
<1> QED
  BY <1>1, PastIs DEF Ended, IsPast, Skip

LEMMA ArgEndIs ==
  ASSUME NEW s, Ended(s), NEW i \in 1..Len(s)
  PROVE  /\ ArgEnd(s, i) \in i..Len(s) /\ s[ArgEnd(s, i)] \notin Blank
         /\ \A k \in i..ArgEnd(s, i) - 1 : s[k] \in Blank
<1>1. s[Len(s)] \notin Blank
  BY TokensDiffer DEF Ended
<1> QED
  BY <1>1, PastIs DEF Ended, IsPast, ArgEnd, Blank

\* The argument between two places.
LEMMA ArgIs ==
  ASSUME NEW s, Ended(s), NEW a \in 1..Len(s), NEW e \in a..Len(s), s[a] # Space,
         \A k \in a..e - 1 : s[k] \in Blank
  PROVE  /\ SubSeq(s, a, e - 1) \in Args
         /\ Len(SubSeq(s, a, e - 1)) = e - a
         /\ \A k \in 1..e - a : SubSeq(s, a, e - 1)[k] = s[a + k - 1]
         /\ SubSeq(s, a, e - 1) # <<>> => SubSeq(s, a, e - 1)[1] \in Words
<1> DEFINE v == SubSeq(s, a, e - 1)
<1>1. Len(v) = e - a /\ \A k \in 1..e - a : v[k] = s[a + k - 1]
  BY DEF Ended
<1>2. v = [k \in 1..e - a |-> s[a + k - 1]]
  BY DEF Ended
<1>3. ASSUME NEW k \in 1..e - a PROVE s[a + k - 1] \in Blank
  BY <1>3
<1>4. v \in Args
  BY <1>2, <1>3 DEF Args, Blank
<1>5. v # <<>> => v[1] \in Words
  <2>1. SUFFICES ASSUME v # <<>> PROVE v[1] \in Words
    OBVIOUS
  <2>2. e - a \in Nat \ {0}
    BY <1>2, <2>1
  <2>3. v[1] = s[a] /\ s[a] \in Blank
    BY <1>1, <1>3, <2>2
  <2> QED
    BY <2>3 DEF Blank
<1> QED
  BY <1>1, <1>4, <1>5

IsValue(v) == v = NoValue \/ (v \in Args /\ (v # <<>> => v[1] \in Words))

\* What OptionAt returns: a value, and a place further on.
LEMMA OptionAtIs ==
  ASSUME NEW s, Ended(s), NEW i \in 1..Len(s), s[i] \in Names
  PROVE  LET o == OptionAt(s, i) IN
         /\ o.name = s[i] /\ IsValue(o.value)
         /\ o.next \in i + 1..Len(s) /\ s[o.next] # Space
<1> DEFINE eq    == Skip(s, i + 1)
           arg   == Skip(s, eq + 1)
           end   == ArgEnd(s, arg)
           qarg  == Skip(s, arg + 1)
           qend  == ArgEnd(s, qarg)
           o     == OptionAt(s, i)
<1>1. Len(s) \in Nat
  BY DEF Ended
<1>2. i + 1 \in 1..Len(s)
  BY Further, TokensDiffer, OptionsAssumption
<1>3. eq \in i + 1..Len(s) /\ s[eq] # Space
  BY <1>2, SkipIs
<1> HIDE DEF eq
<1>4. CASE s[eq] # Equals
  <2>1. o = Parsed(s[i], NoValue, eq)
    BY <1>4 DEF OptionAt, eq
  <2> QED
    BY <1>3, <2>1 DEF Parsed, IsValue
<1>5. CASE s[eq] = Equals
  <2>1. eq + 1 \in 1..Len(s)
    <3>1. eq \in 1..Len(s)
      BY <1>1, <1>2, <1>3
    <3>2. s[eq] # EOI
      BY <1>5, TokensDiffer
    <3> QED
      BY <3>1, <3>2, Further
  <2>2. arg \in eq + 1..Len(s) /\ s[arg] # Space
    BY <2>1, SkipIs
  <2> HIDE DEF arg
  <2>3. CASE s[arg] = Quote /\ s[qend] = Quote
    <3>1. o = Parsed(s[i], SubSeq(s, qarg, qend - 1), Skip(s, qend + 1))
      BY <1>5, <2>3 DEF OptionAt, eq, arg
    <3>2. arg + 1 \in 1..Len(s)
      <4>1. arg \in 1..Len(s)
        BY <1>1, <1>2, <1>3, <2>2
      <4>2. s[arg] # EOI
        BY <2>3, TokensDiffer
      <4> QED
        BY <4>1, <4>2, Further
    <3>3. qarg \in arg + 1..Len(s) /\ s[qarg] # Space
      BY <3>2, SkipIs
    <3> HIDE DEF qarg
    <3>4. qarg \in 1..Len(s)
      BY <3>2, <3>3
    <3>5. qend \in qarg..Len(s) /\ \A k \in qarg..qend - 1 : s[k] \in Blank
      BY <3>4, ArgEndIs
    <3> HIDE DEF qend
    <3>6. qend + 1 \in 1..Len(s)
      <4>1. qend \in 1..Len(s)
        BY <1>1, <3>4, <3>5
      <4>2. s[qend] # EOI
        BY <2>3, TokensDiffer
      <4> QED
        BY <4>1, <4>2, Further
    <3>7. Skip(s, qend + 1) \in qend + 1..Len(s) /\ s[Skip(s, qend + 1)] # Space
      BY <3>6, SkipIs
    <3>8. IsValue(SubSeq(s, qarg, qend - 1))
      BY <3>3, <3>4, <3>5, ArgIs DEF IsValue
    <3>9. Skip(s, qend + 1) \in i + 1..Len(s)
      BY <1>3, <2>2, <3>3, <3>5, <3>7
    <3> QED
      BY <3>1, <3>7, <3>8, <3>9 DEF Parsed
  <2>4. CASE ~(s[arg] = Quote /\ s[qend] = Quote)
    <3>1. o = Parsed(s[i], SubSeq(s, arg, end - 1), end)
      BY <1>5, <2>4 DEF OptionAt, eq, arg
    <3>2. arg \in 1..Len(s)
      BY <1>2, <1>3, <2>2
    <3>3. end \in arg..Len(s) /\ s[end] \notin Blank /\ \A k \in arg..end - 1 : s[k] \in Blank
      BY <3>2, ArgEndIs
    <3> HIDE DEF end
    <3>4. IsValue(SubSeq(s, arg, end - 1))
      BY <2>2, <3>2, <3>3, ArgIs DEF IsValue
    <3>5. end \in i + 1..Len(s) /\ s[end] # Space
      BY <1>3, <2>2, <3>3 DEF Blank
    <3> QED
      BY <3>1, <3>4, <3>5 DEF Parsed
  <2> QED
    BY <2>3, <2>4
<1> QED
  BY <1>4, <1>5

-----------------------------------------------------------------------------
(* The list of options.                                                    *)

ListBody(s, list, i) ==
    IF s[i] \in Names /\ s[OptionAt(s, i).next] = EOI THEN <<OptionAt(s, i)>>
    ELSE IF s[i] \in Names /\ s[OptionAt(s, i).next] = Comma
    THEN Followed(OptionAt(s, i), list[Skip(s, OptionAt(s, i).next + 1)])
    ELSE Failure

LEMMA Later ==
  ASSUME NEW n \in Nat, NEW i \in 1..n, NEW p \in i + 1..n
  PROVE  p \in 1..n /\ \A q \in p + 1..n : q \in i + 1..n
OBVIOUS

\* Where the list goes on behind an option is further on.
LEMMA NextOption ==
  ASSUME NEW s, Ended(s), NEW i \in 1..Len(s), s[i] \in Names,
         s[OptionAt(s, i).next] = Comma
  PROVE  /\ Skip(s, OptionAt(s, i).next + 1) \in i + 1..Len(s)
         /\ OptionAt(s, i).next + 1 \in 1..Len(s)
<1> DEFINE p == OptionAt(s, i).next
<1>1. Len(s) \in Nat
  BY DEF Ended
<1>2. p \in i + 1..Len(s)
  BY OptionAtIs
<1>3. p \in 1..Len(s) /\ \A q \in p + 1..Len(s) : q \in i + 1..Len(s)
  BY <1>1, <1>2, Later
<1>4. s[p] # EOI
  BY TokensDiffer DEF p
<1>5. p + 1 \in 1..Len(s)
  BY <1>3, <1>4, Further
<1>6. Skip(s, p + 1) \in p + 1..Len(s)
  BY <1>5, SkipIs
<1> QED
  BY <1>3, <1>5, <1>6

LEMMA ListBodySame ==
  ASSUME NEW s, Ended(s), NEW i \in 1..Len(s), NEW f, NEW g,
         \A j \in i + 1..Len(s) : f[j] = g[j]
  PROVE  ListBody(s, f, i) = ListBody(s, g, i)
<1>1. CASE s[i] \notin Names
  BY <1>1 DEF ListBody
<1>2. CASE s[i] \in Names /\ s[OptionAt(s, i).next] # Comma
  BY <1>2 DEF ListBody
<1>3. CASE s[i] \in Names /\ s[OptionAt(s, i).next] = Comma
  <2> DEFINE p == OptionAt(s, i).next
  <2>1. f[Skip(s, p + 1)] = g[Skip(s, p + 1)]
    BY <1>3, NextOption
  <2> QED
    BY <2>1 DEF ListBody
<1> QED
  BY <1>1, <1>2, <1>3

\* The recursion of List is well-founded.
LEMMA ListDef ==
  ASSUME NEW s, Ended(s)
  PROVE  \A i \in 1..Len(s) : List(s)[i] = ListBody(s, List(s), i)
<1> DEFINE n == Len(s)
           Solves(f, k) == /\ f = [i \in 1..n |-> f[i]]
                           /\ \A i \in n - k + 1..n : f[i] = ListBody(s, f, i)
           K == {k \in Nat : k <= n => \E f : Solves(f, k)}
<1>1. n \in Nat
  BY DEF Ended
<1>2. ASSUME NEW k \in Nat, \A m \in 0..k - 1 : m \in K
      PROVE  k \in K
  <2>1. SUFFICES ASSUME k <= n PROVE \E f : Solves(f, k)
    OBVIOUS
  <2>2. CASE k = 0
    <3>1. Solves([i \in 1..n |-> <<>>], k)
      BY <1>1, <2>2
    <3> QED
      BY <3>1
  <2>3. CASE k # 0
    <3>1. k - 1 \in K /\ k - 1 <= n
      BY <1>1, <1>2, <2>1, <2>3
    <3>2. PICK f : Solves(f, k - 1)
      BY <3>1
    <3> DEFINE a == n - k + 1
               g == [i \in 1..n |-> IF i = a THEN ListBody(s, f, a) ELSE f[i]]
    <3>3. a \in 1..n
      BY <1>1, <2>1, <2>3
    <3>4. \A i \in a..n : ListBody(s, g, i) = ListBody(s, f, i)
      <4>1. SUFFICES ASSUME NEW i \in a..n PROVE ListBody(s, g, i) = ListBody(s, f, i)
        OBVIOUS
      <4>2. i \in 1..n /\ \A j \in i + 1..n : g[j] = f[j]
        BY <1>1, <3>3
      <4> HIDE DEF g
      <4> QED
        BY <4>2, ListBodySame
    <3>5. ASSUME NEW i \in a..n PROVE g[i] = ListBody(s, g, i)
      <4>1. CASE i = a
        BY <1>1, <3>3, <3>4, <4>1
      <4>2. CASE i # a
        <5>1. i \in n - (k - 1) + 1..n /\ g[i] = f[i]
          BY <1>1, <3>3, <4>2
        <5> QED
          BY <3>2, <3>4, <5>1
      <4> QED
        BY <4>1, <4>2
    <3>6. Solves(g, k)
      BY <3>5
    <3> QED
      BY <3>6
  <2> QED
    BY <2>2, <2>3
<1>3. n \in K
  <2> HIDE DEF K
  <2>1. \A k \in Nat : k \in K
    BY <1>2, StrongInduction
  <2> QED
    BY <1>1, <2>1
<1>4. PICK f : Solves(f, n)
  BY <1>1, <1>3
<1>5. f = [i \in 1..n |-> ListBody(s, f, i)]
  <2>1. \A i \in 1..n : f[i] = ListBody(s, f, i)
    BY <1>1, <1>4
  <2> QED
    BY <1>4, <2>1
<1>6. List(s) = CHOOSE g : g = [i \in 1..n |-> ListBody(s, g, i)]
  BY DEF List, ListBody
<1>7. List(s) = [i \in 1..n |-> ListBody(s, List(s), i)]
  BY <1>5, <1>6
<1> QED
  BY <1>7

\* Induction from the end of a text or of a list.
LEMMA Downward ==
  ASSUME NEW n \in Nat, NEW S,
         \A i \in 1..n : (\A j \in i + 1..n : j \in S) => i \in S
  PROVE  \A i \in 1..n : i \in S
<1> DEFINE K == {k \in Nat : k < n => n - k \in S}
<1>1. ASSUME NEW k \in Nat, \A m \in 0..k - 1 : m \in K
      PROVE  k \in K
  <2>1. SUFFICES ASSUME k < n PROVE n - k \in S
    OBVIOUS
  <2>2. n - k \in 1..n
    BY <2>1
  <2>3. ASSUME NEW j \in n - k + 1..n PROVE j \in S
    <3>1. n - j \in 0..k - 1 /\ n - j < n /\ n - (n - j) = j
      BY <2>1
    <3> QED
      BY <1>1, <3>1
  <2> QED
    BY <2>2, <2>3
<1>2. \A k \in Nat : k \in K
  <2> HIDE DEF K
  <2> QED
    BY <1>1, StrongInduction
<1>3. ASSUME NEW i \in 1..n PROVE i \in S
  <2>1. n - i \in Nat /\ n - i < n /\ n - (n - i) = i
    OBVIOUS
  <2> QED
    BY <1>2, <2>1
<1> QED
  BY <1>3

\* What the parser returns for an option.
Option == {o \in [name : Names, value : Args \union {NoValue}, next : Nat \ {0}] :
              IsValue(o.value)}

LEMMA OptionAtType ==
  ASSUME NEW s, Ended(s), NEW i \in 1..Len(s), s[i] \in Names
  PROVE  OptionAt(s, i) \in Option
<1> DEFINE o == OptionAt(s, i)
<1>1. o = Parsed(o.name, o.value, o.next)
  BY DEF OptionAt, Parsed
<1>2. o.name \in Names /\ IsValue(o.value) /\ o.next \in i + 1..Len(s)
  BY OptionAtIs
<1> HIDE DEF o
<1>3. o.next \in Nat \ {0}
  BY <1>2 DEF Ended
<1>4. o.value \in Args \union {NoValue}
  BY <1>2 DEF IsValue
<1> QED
  BY <1>1, <1>2, <1>3, <1>4 DEF Option, Parsed, o

LEMMA FailureIsNone == Failure \notin Seq(Option)
<1>1. Failure[1].next = 0
  BY DEF Failure, Parsed
<1>2. SUFFICES ASSUME Failure \in Seq(Option) PROVE FALSE
  OBVIOUS
<1>3. Failure[1] \in Option
  <2>1. Len(Failure) = 1
    BY DEF Failure
  <2> QED
    BY <1>2, <2>1
<1> QED
  BY <1>1, <1>3 DEF Option

LEMMA ListIs ==
  ASSUME NEW s, Ended(s)
  PROVE  \A i \in 1..Len(s) : List(s)[i] = Failure \/ List(s)[i] \in Seq(Option)
<1> DEFINE n == Len(s)
           S == {i \in 1..n : List(s)[i] = Failure \/ List(s)[i] \in Seq(Option)}
<1>1. n \in Nat
  BY DEF Ended
<1>2. ASSUME NEW i \in 1..n, \A j \in i + 1..n : j \in S PROVE i \in S
  <2> DEFINE o == OptionAt(s, i)
             rest == List(s)[Skip(s, o.next + 1)]
  <2>1. List(s)[i] = ListBody(s, List(s), i)
    BY ListDef
  <2>2. CASE s[i] \in Names /\ s[o.next] = EOI
    <3>1. List(s)[i] = <<o>>
      BY <2>1, <2>2 DEF ListBody
    <3>2. o \in Option
      BY <2>2, OptionAtType
    <3>3. <<o>> \in Seq(Option)
      <4> HIDE DEF o
      <4> QED
        BY <3>2
    <3> QED
      BY <3>1, <3>3
  <2>3. CASE s[i] \in Names /\ s[o.next] = Comma
    <3>1. List(s)[i] = Followed(o, rest)
      BY <2>1, <2>3, TokensDiffer DEF ListBody
    <3>2. o \in Option
      BY <2>3, OptionAtType
    <3>3. Skip(s, o.next + 1) \in S
      BY <1>2, <2>3, NextOption
    <3>4. rest = Failure \/ rest \in Seq(Option)
      BY <3>3
    <3>5. Followed(o, rest) = Failure \/ Followed(o, rest) \in Seq(Option)
      <4> HIDE DEF o, rest
      <4> QED
        BY <3>2, <3>4 DEF Followed
    <3> QED
      BY <3>1, <3>5
  <2>4. CASE ~(s[i] \in Names /\ s[o.next] \in {EOI, Comma})
    BY <2>1, <2>4 DEF ListBody
  <2> QED
    BY <2>2, <2>3, <2>4
<1> HIDE DEF S
<1>3. \A i \in 1..n : i \in S
  BY <1>1, <1>2, Downward
<1> QED
  BY <1>3 DEF S

LEMMA EndedText ==
  ASSUME NEW t \in Seq(Tokens)
  PROVE  /\ Ended(Append(t, EOI)) /\ Len(Append(t, EOI)) = Len(t) + 1
         /\ \A i \in 1..Len(t) : Append(t, EOI)[i] = t[i]
         /\ Append(t, EOI)[Len(t) + 1] = EOI
<1>1. t \in Seq(Tokens \union {EOI})
  OBVIOUS
<1>2. \A i \in 1..Len(t) : t[i] \in Tokens
  OBVIOUS
<1> QED
  BY <1>1, <1>2 DEF Ended

LEMMA ParseIs ==
  ASSUME NEW t \in Seq(Tokens)
  PROVE  Parse(t) = Failure \/ Parse(t) \in Seq(Option)
<1> DEFINE s == Append(t, EOI)
<1>1. Ended(s) /\ 1 \in 1..Len(s)
  BY EndedText
<1>2. Skip(s, 1) \in 1..Len(s)
  BY <1>1, SkipIs
<1>3. List(s)[Skip(s, 1)] = Failure \/ List(s)[Skip(s, 1)] \in Seq(Option)
  BY <1>1, <1>2, ListIs
<1>4. Parse(t) = IF s[Skip(s, 1)] = EOI THEN <<>> ELSE List(s)[Skip(s, 1)]
  BY DEF Parse
<1> HIDE DEF s
<1> QED
  BY <1>3, <1>4

-----------------------------------------------------------------------------
(* Settings that are written down.                                         *)

IsSetting(o) ==
    /\ o.name \in Names
    /\ \/ o.value = NoValue
       \/ o.value \in Args /\ (o.value # <<>> => o.value[1] # Space)

LEMMA ListsAre ==
  ASSUME NEW list \in Lists
  PROVE  Len(list) \in Nat /\ \A i \in 1..Len(list) : IsSetting(list[i])
<1> DEFINE S == {list[i] : i \in DOMAIN list}
<1>1. list \in Seq(S)
  BY ListsAssumption
<1>2. Len(list) \in Nat
  <2> HIDE DEF S
  <2> QED
    BY <1>1
<1>3. ASSUME NEW i \in 1..Len(list) PROVE IsSetting(list[i])
  BY ListsAssumption DEF IsSetting
<1> QED
  BY <1>2, <1>3

LEMMA WiderSeq ==
  ASSUME NEW A, NEW B, A \subseteq B, NEW v \in Seq(A)
  PROVE  v \in Seq(B)
OBVIOUS

LEMMA Joined ==
  ASSUME NEW S, NEW u \in Seq(S), NEW v \in Seq(S)
  PROVE  /\ u \o v \in Seq(S) /\ Len(u) \in Nat /\ Len(v) \in Nat
         /\ Len(u \o v) = Len(u) + Len(v)
         /\ \A k \in 1..Len(u) : (u \o v)[k] = u[k]
         /\ \A k \in 1..Len(v) : (u \o v)[Len(u) + k] = v[k]
OBVIOUS

LEMMA ArgsDiffer == NoValue \notin Args
BY OptionsAssumption

\* The parts of a setting that is written down.
LEMMA SettingIs ==
  ASSUME NEW o, IsSetting(o)
  PROVE  /\ Setting(o) \in Seq(Tokens) /\ Len(Setting(o)) \in Nat \ {0}
         /\ Setting(o)[1] = o.name
         /\ o.value = NoValue => Len(Setting(o)) = 1
         /\ o.value # NoValue =>
               /\ Len(o.value) \in Nat /\ Len(Setting(o)) = Len(o.value) + 4
               /\ Setting(o)[2] = Equals /\ Setting(o)[3] = Quote
               /\ \A k \in 1..Len(o.value) : Setting(o)[k + 3] = o.value[k]
               /\ Setting(o)[Len(o.value) + 4] = Quote
<1>1. o.name \in Tokens /\ Quote \in Tokens /\ Equals \in Tokens
  BY TokensDiffer DEF IsSetting, Tokens
<1>2. CASE o.value = NoValue
  <2>1. Setting(o) = <<o.name>>
    BY <1>2 DEF Setting
  <2> QED
    BY <1>1, <1>2, <2>1
<1>3. CASE o.value # NoValue
  <2>1. o.value \in Seq(Tokens)
    <3>1. o.value \in Seq(Blank) /\ Blank \subseteq Tokens
      BY <1>3 DEF IsSetting, Args, Blank, Tokens
    <3> QED
      BY <3>1, WiderSeq
  <2>2. Setting(o) = <<o.name>> \o (<<Equals, Quote>> \o o.value \o <<Quote>>)
    BY <1>3 DEF Setting
  <2> DEFINE v == o.value
             front == <<Equals, Quote>>
             tail == front \o v \o <<Quote>>
  <2>3. front \in Seq(Tokens) /\ <<Quote>> \in Seq(Tokens) /\ <<o.name>> \in Seq(Tokens)
    BY <1>1
  <2> HIDE DEF v
  <2>4. /\ tail \in Seq(Tokens) /\ Len(tail) = Len(v) + 3
        /\ tail[1] = Equals /\ tail[2] = Quote
        /\ \A k \in 1..Len(v) : tail[k + 2] = v[k]
        /\ tail[Len(v) + 3] = Quote
    <3>1. v \in Seq(Tokens)
      BY <2>1 DEF v
    <3>2. front \o v \in Seq(Tokens) /\ Len(front \o v) = Len(v) + 2
      BY <2>3, <3>1
    <3>3. \A k \in 1..Len(v) : (front \o v)[k + 2] = v[k]
      BY <2>3, <3>1
    <3>4. (front \o v)[1] = Equals /\ (front \o v)[2] = Quote
      BY <2>3, <3>1
    <3> HIDE DEF front
    <3> QED
      BY <2>3, <3>1, <3>2, <3>3, <3>4
  <2>5. Setting(o) = <<o.name>> \o tail
    BY <2>2 DEF v
  <2>6. Len(v) \in Nat
    BY <2>1 DEF v
  <2> HIDE DEF tail
  <2>7. /\ Setting(o) \in Seq(Tokens) /\ Len(Setting(o)) = Len(v) + 4
        /\ Setting(o)[1] = o.name
        /\ \A k \in 1..Len(v) + 3 : Setting(o)[k + 1] = tail[k]
    BY <2>3, <2>4, <2>5, <2>6
  <2>8. Setting(o)[2] = Equals /\ Setting(o)[3] = Quote /\ Setting(o)[Len(v) + 4] = Quote
    <3>1. 1 \in 1..Len(v) + 3 /\ 2 \in 1..Len(v) + 3 /\ Len(v) + 3 \in 1..Len(v) + 3
      BY <2>6
    <3>2. Setting(o)[1 + 1] = tail[1] /\ Setting(o)[2 + 1] = tail[2]
          /\ Setting(o)[Len(v) + 3 + 1] = tail[Len(v) + 3]
      BY <2>7, <3>1
    <3> QED
      BY <2>4, <2>6, <3>2
  <2>9. ASSUME NEW k \in 1..Len(v) PROVE Setting(o)[k + 3] = v[k]
    <3>1. k + 2 \in 1..Len(v) + 3 /\ k + 2 + 1 = k + 3
      BY <2>6
    <3> QED
      BY <2>4, <2>7, <3>1
  <2> QED
    BY <1>3, <2>6, <2>7, <2>8, <2>9 DEF v
<1> QED
  BY <1>2, <1>3

WrittenBody(list, w, i) ==
    Setting(list[i]) \o
        (IF i = Len(list) THEN <<>> ELSE <<Comma, Space>> \o w[i + 1])

\* The recursion of Written is well-founded.
LEMMA WrittenDef ==
  ASSUME NEW list, Len(list) \in Nat
  PROVE  \A i \in 1..Len(list) : Written(list)[i] = WrittenBody(list, Written(list), i)
<1> DEFINE n == Len(list)
           Solves(f, k) == /\ f = [i \in 1..n |-> f[i]]
                           /\ \A i \in n - k + 1..n : f[i] = WrittenBody(list, f, i)
           K == {k \in Nat : k <= n => \E f : Solves(f, k)}
<1>1. n \in Nat
  OBVIOUS
<1>2. ASSUME NEW k \in Nat, \A m \in 0..k - 1 : m \in K
      PROVE  k \in K
  <2>1. SUFFICES ASSUME k <= n PROVE \E f : Solves(f, k)
    OBVIOUS
  <2>2. CASE k = 0
    <3>1. Solves([i \in 1..n |-> <<>>], k)
      BY <1>1, <2>2
    <3> QED
      BY <3>1
  <2>3. CASE k # 0
    <3>1. k - 1 \in K /\ k - 1 <= n
      BY <1>1, <1>2, <2>1, <2>3
    <3>2. PICK f : Solves(f, k - 1)
      BY <3>1
    <3> DEFINE a == n - k + 1
               g == [i \in 1..n |-> IF i = a THEN WrittenBody(list, f, a) ELSE f[i]]
    <3>3. a \in 1..n
      BY <1>1, <2>1, <2>3
    <3>4. \A i \in a..n : WrittenBody(list, g, i) = WrittenBody(list, f, i)
      <4>1. SUFFICES ASSUME NEW i \in a..n
                     PROVE  WrittenBody(list, g, i) = WrittenBody(list, f, i)
        OBVIOUS
      <4>2. i # n => g[i + 1] = f[i + 1]
        BY <1>1, <3>3
      <4> HIDE DEF g
      <4> QED
        BY <4>2 DEF WrittenBody
    <3>5. ASSUME NEW i \in a..n PROVE g[i] = WrittenBody(list, g, i)
      <4>1. CASE i = a
        BY <1>1, <3>3, <3>4, <4>1
      <4>2. CASE i # a
        <5>1. i \in n - (k - 1) + 1..n /\ g[i] = f[i]
          BY <1>1, <3>3, <4>2
        <5> QED
          BY <3>2, <3>4, <5>1
      <4> QED
        BY <4>1, <4>2
    <3>6. Solves(g, k)
      BY <3>5
    <3> QED
      BY <3>6
  <2> QED
    BY <2>2, <2>3
<1>3. n \in K
  <2> HIDE DEF K
  <2>1. \A k \in Nat : k \in K
    BY <1>2, StrongInduction
  <2> QED
    BY <1>1, <2>1
<1>4. PICK f : Solves(f, n)
  BY <1>1, <1>3
<1>5. f = [i \in 1..n |-> WrittenBody(list, f, i)]
  <2>1. \A i \in 1..n : f[i] = WrittenBody(list, f, i)
    BY <1>1, <1>4
  <2> QED
    BY <1>4, <2>1
<1>6. Written(list) = CHOOSE g : g = [i \in 1..n |-> WrittenBody(list, g, i)]
  BY DEF Written, WrittenBody
<1>7. Written(list) = [i \in 1..n |-> WrittenBody(list, Written(list), i)]
  BY <1>5, <1>6
<1> QED
  BY <1>7

\* The text w is in s at place a.
At(s, a, w) ==
    /\ a \in 1..Len(s) /\ Len(w) \in Nat /\ a + Len(w) <= Len(s)
    /\ \A k \in 1..Len(w) : s[a + k - 1] = w[k]

LEMMA SkipNone ==
  ASSUME NEW s, Len(s) \in Nat, NEW i \in 1..Len(s), s[i] # Space
  PROVE  Skip(s, i) = i
<1>1. IsPast(s, i, {Space}, i)
  BY DEF IsPast
<1> QED
  BY <1>1, PastUnique DEF Skip

\* The parser finds a setting that is written down.
LEMMA OptionOfSetting ==
  ASSUME NEW s, Ended(s), NEW o, IsSetting(o), NEW a, At(s, a, Setting(o)),
         s[a + Len(Setting(o))] \in {EOI, Comma}
  PROVE  OptionAt(s, a) = Parsed(o.name, o.value, a + Len(Setting(o)))
<1> DEFINE w == Setting(o)
           e == a + Len(w)
<1>1. /\ Len(s) \in Nat /\ a \in 1..Len(s) /\ Len(w) \in Nat \ {0}
      /\ e \in 1..Len(s) /\ s[e] \in {EOI, Comma}
      /\ \A k \in 1..Len(w) : s[a + k - 1] = w[k]
  BY SettingIs DEF At, Ended
<1>2. s[e] # Space /\ s[e] # Equals /\ s[e] # Quote
  BY <1>1, TokensDiffer
<1>3. s[a] = o.name
  <2>1. s[a + 1 - 1] = w[1] /\ a + 1 - 1 = a
    BY <1>1
  <2> QED
    BY <2>1, SettingIs
<1>4. CASE o.value = NoValue
  <2>1. e = a + 1
    BY <1>4, SettingIs
  <2>2. Skip(s, a + 1) = e
    BY <1>1, <1>2, <2>1, SkipNone
  <2> QED
    BY <1>2, <1>3, <1>4, <2>2 DEF OptionAt
<1>5. CASE o.value # NoValue
  <2> DEFINE v == o.value
             m == Len(v)
  <2>1. /\ m \in Nat /\ Len(w) = m + 4 /\ w[2] = Equals /\ w[3] = Quote /\ w[m + 4] = Quote
        /\ \A k \in 1..m : w[k + 3] = v[k]
    BY <1>5, SettingIs
  <2>2. v \in Args /\ (v # <<>> => v[1] # Space)
    BY <1>5 DEF IsSetting
  <2> HIDE DEF v, w
  <2>3. s[a + 1] = Equals /\ s[a + 2] = Quote /\ s[a + 3 + m] = Quote
    <3>1. s[a + 2 - 1] = w[2] /\ s[a + 3 - 1] = w[3] /\ s[a + (m + 4) - 1] = w[m + 4]
      BY <1>1, <2>1
    <3>2. a + 2 - 1 = a + 1 /\ a + 3 - 1 = a + 2 /\ a + (m + 4) - 1 = a + 3 + m
      BY <1>1, <2>1
    <3> QED
      BY <2>1, <3>1, <3>2
  <2>4. ASSUME NEW k \in 1..m PROVE s[a + 2 + k] = v[k]
    <3>1. s[a + (k + 3) - 1] = w[k + 3]
      BY <1>1, <2>1
    <3>2. a + (k + 3) - 1 = a + 2 + k
      BY <1>1, <2>1
    <3> QED
      BY <2>1, <3>1, <3>2
  <2>5. /\ a + 1 \in 1..Len(s) /\ a + 2 \in 1..Len(s) /\ a + 3 \in 1..Len(s)
        /\ a + 3 + m \in a + 3..Len(s) /\ a + 3 + m \in 1..Len(s) /\ e = a + 4 + m
        /\ e \in 1..Len(s)
    BY <1>1, <2>1
  <2>6. Skip(s, a + 1) = a + 1
    BY <1>1, <2>3, <2>5, SkipNone, TokensDiffer
  <2>7. Skip(s, a + 2) = a + 2
    BY <1>1, <2>3, <2>5, SkipNone, TokensDiffer
  <2>8. v \in Seq(Blank) /\ \A k \in 1..m : v[k] \in Blank
    <3>1. v \in Seq(Blank)
      BY <2>2 DEF Args, Blank
    <3> QED
      BY <3>1
  <2>9. Skip(s, a + 3) = a + 3
    <3>1. s[a + 3] # Space
      <4>1. CASE m = 0
        BY <1>1, <2>3, <4>1, TokensDiffer
      <4>2. CASE m # 0
        <5>1. 1 \in 1..m /\ a + 2 + 1 = a + 3 /\ v # <<>>
          BY <1>1, <2>1, <4>2
        <5> QED
          BY <2>2, <2>4, <5>1
      <4> QED
        BY <4>1, <4>2
    <3> QED
      BY <1>1, <2>5, <3>1, SkipNone
  <2>10. ArgEnd(s, a + 3) = a + 3 + m
    <3>1. ASSUME NEW k \in a + 3..a + 3 + m - 1 PROVE s[k] \in Blank
      <4>1. k - (a + 2) \in 1..m /\ a + 2 + (k - (a + 2)) = k
        BY <1>1, <2>1
      <4> QED
        BY <2>4, <2>8, <4>1
    <3>2. s[a + 3 + m] \notin Blank
      BY <2>3, TokensDiffer
    <3>3. IsPast(s, a + 3, Blank, a + 3 + m)
      BY <2>5, <3>1, <3>2 DEF IsPast
    <3> QED
      BY <1>1, <2>5, <3>3, PastUnique DEF ArgEnd, Blank
  <2>11. SubSeq(s, a + 3, a + 3 + m - 1) = v
    <3> DEFINE u == SubSeq(s, a + 3, a + 3 + m - 1)
    <3>1. u = [k \in 1..m |-> s[a + 3 + k - 1]]
      BY <1>1, <2>1, <2>5 DEF Ended
    <3>2. ASSUME NEW k \in 1..m PROVE s[a + 3 + k - 1] = v[k]
      <4>1. a + 3 + k - 1 = a + 2 + k
        BY <1>1, <2>1
      <4> QED
        BY <2>4, <4>1
    <3>3. v = [k \in 1..m |-> v[k]]
      BY <2>8
    <3> QED
      BY <3>1, <3>2, <3>3
  <2>12. Skip(s, a + 3 + m + 1) = e
    <3>1. a + 3 + m + 1 = e
      BY <1>1, <2>1, <2>5
    <3> QED
      BY <1>1, <1>2, <3>1, SkipNone
  <2>13. a + 1 + 1 = a + 2 /\ a + 2 + 1 = a + 3
    BY <1>1
  <2>14. OptionAt(s, a) = Parsed(s[a], SubSeq(s, a + 3, a + 3 + m - 1), Skip(s, a + 3 + m + 1))
    <3> DEFINE eq    == Skip(s, a + 1)
               arg   == Skip(s, eq + 1)
               qarg  == Skip(s, arg + 1)
               qend  == ArgEnd(s, qarg)
    <3>1. s[eq] = Equals /\ s[arg] = Quote /\ s[qend] = Quote =>
             OptionAt(s, a) = Parsed(s[a], SubSeq(s, qarg, qend - 1), Skip(s, qend + 1))
      BY DEF OptionAt
    <3>2. eq = a + 1 /\ arg = a + 2 /\ qarg = a + 3 /\ qend = a + 3 + m
      BY <2>6, <2>7, <2>9, <2>10, <2>13
    <3> HIDE DEF eq, arg, qarg, qend
    <3> QED
      BY <2>3, <3>1, <3>2
  <2> QED
    BY <1>3, <2>11, <2>12, <2>14 DEF v, w
<1> QED
  BY <1>4, <1>5

\* The parts of the text of the settings from place i on.
LEMMA WrittenParts ==
  ASSUME NEW list \in Lists, NEW i \in 1..Len(list),
         i < Len(list) => Written(list)[i + 1] \in Seq(Tokens)
  PROVE  LET w == Written(list)[i]
             m == Len(Setting(list[i]))
         IN  /\ w \in Seq(Tokens) /\ Len(w) \in Nat
             /\ i = Len(list) => w = Setting(list[i])
             /\ i < Len(list) =>
                   /\ Len(w) = m + 2 + Len(Written(list)[i + 1])
                   /\ \A k \in 1..m : w[k] = Setting(list[i])[k]
                   /\ w[m + 1] = Comma /\ w[m + 2] = Space
                   /\ \A k \in 1..Len(Written(list)[i + 1]) :
                         w[m + 2 + k] = Written(list)[i + 1][k]
<1> DEFINE w == Written(list)[i]
           set == Setting(list[i])
           rest == Written(list)[i + 1]
           m == Len(set)
           sep == <<Comma, Space>>
<1>1. Len(list) \in Nat /\ IsSetting(list[i])
  BY ListsAre
<1>2. set \in Seq(Tokens) /\ m \in Nat
  BY <1>1, SettingIs
<1>3. sep \in Seq(Tokens)
  BY DEF Tokens
<1>4. w = set \o (IF i = Len(list) THEN <<>> ELSE sep \o rest)
  BY <1>1, WrittenDef DEF WrittenBody
<1>5. CASE i = Len(list)
  <2>1. w = set \o <<>>
    BY <1>4, <1>5
  <2> HIDE DEF w, set
  <2>2. w = set
    BY <1>2, <2>1
  <2>3. ~(i < Len(list))
    BY <1>1, <1>5
  <2> QED
    BY <1>2, <2>2, <2>3 DEF w, set
<1>6. CASE i < Len(list)
  <2>1. w = set \o (sep \o rest) /\ rest \in Seq(Tokens) /\ i # Len(list)
    <3>1. i # Len(list)
      BY <1>1, <1>6
    <3>2. rest \in Seq(Tokens)
      BY <1>6
    <3> QED
      BY <1>4, <3>1, <3>2
  <2> HIDE DEF w, set, rest
  <2>2. Len(sep) = 2 /\ sep[1] = Comma /\ sep[2] = Space
    OBVIOUS
  <2> HIDE DEF sep
  <2> DEFINE tail == sep \o rest
  <2>3. /\ tail \in Seq(Tokens) /\ Len(tail) = 2 + Len(rest)
        /\ tail[1] = Comma /\ tail[2] = Space
        /\ \A k \in 1..Len(rest) : tail[2 + k] = rest[k]
    <3>1. 1 \in 1..Len(sep) /\ 2 \in 1..Len(sep)
      BY <2>2
    <3>2. /\ sep \o rest \in Seq(Tokens) /\ Len(sep \o rest) = Len(sep) + Len(rest)
          /\ \A k \in 1..Len(sep) : (sep \o rest)[k] = sep[k]
          /\ \A k \in 1..Len(rest) : (sep \o rest)[Len(sep) + k] = rest[k]
      BY <1>3, <2>1, Joined
    <3> QED
      BY <2>2, <3>1, <3>2
  <2>4. w = set \o tail /\ Len(rest) \in Nat
    BY <2>1
  <2> HIDE DEF tail
  <2>5. /\ w \in Seq(Tokens) /\ Len(w) = m + Len(tail)
        /\ \A k \in 1..m : w[k] = set[k]
        /\ \A k \in 1..Len(tail) : w[m + k] = tail[k]
    <3>1. set \in Seq(Tokens) /\ tail \in Seq(Tokens)
      BY <1>2, <2>3
    <3>2. /\ set \o tail \in Seq(Tokens) /\ Len(set \o tail) = Len(set) + Len(tail)
          /\ \A k \in 1..Len(set) : (set \o tail)[k] = set[k]
          /\ \A k \in 1..Len(tail) : (set \o tail)[Len(set) + k] = tail[k]
      BY <3>1, Joined
    <3> QED
      BY <2>4, <3>2
  <2>6. w[m + 1] = Comma /\ w[m + 2] = Space
    <3>1. 1 \in 1..Len(tail) /\ 2 \in 1..Len(tail)
      BY <2>3, <2>4
    <3> QED
      BY <2>3, <2>5, <3>1
  <2>7. ASSUME NEW k \in 1..Len(rest) PROVE w[m + 2 + k] = rest[k]
    <3>1. 2 + k \in 1..Len(tail) /\ m + (2 + k) = m + 2 + k
      BY <1>2, <2>3, <2>4
    <3> QED
      BY <2>3, <2>5, <3>1
  <2>8. Len(w) = m + 2 + Len(rest) /\ Len(w) \in Nat
    BY <1>2, <2>3, <2>4, <2>5
  <2> QED
    BY <2>1, <2>5, <2>6, <2>7, <2>8 DEF w, set, rest
<1>7. i = Len(list) \/ i < Len(list)
  BY <1>1
<1> QED
  BY <1>5, <1>6, <1>7

LEMMA WrittenIsText ==
  ASSUME NEW list \in Lists
  PROVE  \A i \in 1..Len(list) : Written(list)[i] \in Seq(Tokens)
<1> DEFINE n == Len(list)
           S == {i \in 1..n : Written(list)[i] \in Seq(Tokens)}
<1>1. n \in Nat
  BY ListsAre
<1>2. ASSUME NEW i \in 1..n, \A j \in i + 1..n : j \in S PROVE i \in S
  <2>1. i < n => Written(list)[i + 1] \in Seq(Tokens)
    <3>1. i < n => i + 1 \in i + 1..n
      BY <1>1
    <3> QED
      BY <1>2, <3>1
  <2>2. Written(list)[i] \in Seq(Tokens)
    BY <2>1, WrittenParts
  <2> QED
    BY <2>2
<1> HIDE DEF S
<1>3. \A i \in 1..n : i \in S
  BY <1>1, <1>2, Downward
<1> QED
  BY <1>3 DEF S

\* The text of settings begins with the name of an option.
LEMMA WrittenBegins ==
  ASSUME NEW list \in Lists, NEW i \in 1..Len(list)
  PROVE  Len(Written(list)[i]) \in Nat \ {0} /\ Written(list)[i][1] \in Names
<1> DEFINE v == Written(list)[i]
           set == Setting(list[i])
<1>1. Len(list) \in Nat
  BY ListsAre
<1>2. IsSetting(list[i]) /\ Len(set) \in Nat \ {0} /\ set[1] \in Names
  BY ListsAre, SettingIs DEF IsSetting
<1>3. i < Len(list) => Written(list)[i + 1] \in Seq(Tokens)
  <2>1. i < Len(list) => i + 1 \in 1..Len(list)
    BY <1>1
  <2> QED
    BY <2>1, WrittenIsText
<1>4. /\ i = Len(list) => v = set
      /\ i < Len(list) => /\ Len(v) = Len(set) + 2 + Len(Written(list)[i + 1])
                          /\ \A k \in 1..Len(set) : v[k] = set[k]
  BY <1>3, WrittenParts
<1>5. CASE i = Len(list)
  BY <1>2, <1>4, <1>5
<1>6. CASE i < Len(list)
  <2>1. Len(Written(list)[i + 1]) \in Nat
    BY <1>3, <1>6
  <2>2. 1 \in 1..Len(set)
    BY <1>2
  <2> HIDE DEF v, set
  <2>3. Len(v) \in Nat \ {0}
    <3> DEFINE r == Len(Written(list)[i + 1])
    <3>1. Len(v) = Len(set) + 2 + r
      BY <1>4, <1>6
    <3>2. r \in Nat
      BY <2>1
    <3> HIDE DEF r
    <3> QED
      BY <1>2, <3>1, <3>2
  <2>4. v[1] = set[1]
    BY <1>4, <1>6, <2>2
  <2> QED
    BY <1>2, <2>3, <2>4 DEF v
<1> QED
  BY <1>1, <1>5, <1>6

\* A list of options that says what the settings from place i on say.
Says(list, i, options) ==
    /\ options \in Seq(Option) /\ Len(options) = Len(list) - i + 1
    /\ \A k \in 1..Len(options) :
          /\ options[k].name = list[i + k - 1].name
          /\ options[k].value = list[i + k - 1].value

LEMMA SaysMore ==
  ASSUME NEW list, Len(list) \in Nat, NEW i \in 1..Len(list) - 1, NEW rest,
         Says(list, i + 1, rest), NEW o \in Option,
         o.name = list[i].name, o.value = list[i].value
  PROVE  Says(list, i, <<o>> \o rest)
<1> DEFINE l == <<o>> \o rest
<1>1. rest \in Seq(Option) /\ Len(rest) = Len(list) - i /\ Len(rest) \in Nat
  BY DEF Says
<1>2. <<o>> \in Seq(Option) /\ Len(<<o>>) = 1 /\ <<o>>[1] = o
  OBVIOUS
<1>3. /\ l \in Seq(Option) /\ Len(l) = Len(rest) + 1 /\ l[1] = o
      /\ \A k \in 1..Len(rest) : l[1 + k] = rest[k]
  BY <1>1, <1>2
<1> HIDE DEF l
<1>4. ASSUME NEW k \in 1..Len(l)
      PROVE  l[k].name = list[i + k - 1].name /\ l[k].value = list[i + k - 1].value
  <2>1. CASE k = 1
    BY <1>3, <2>1
  <2>2. CASE k # 1
    <3>1. k - 1 \in 1..Len(rest) /\ 1 + (k - 1) = k /\ i + 1 + (k - 1) - 1 = i + k - 1
      BY <1>1, <1>3, <2>2
    <3>2. l[k] = rest[k - 1]
      BY <1>3, <3>1
    <3>3. /\ rest[k - 1].name = list[i + 1 + (k - 1) - 1].name
          /\ rest[k - 1].value = list[i + 1 + (k - 1) - 1].value
      BY <3>1 DEF Says
    <3> QED
      BY <3>1, <3>2, <3>3
  <2> QED
    BY <2>1, <2>2
<1> QED
  BY <1>1, <1>3, <1>4 DEF Says, l

\* The parser understands settings as they are meant.
LEMMA ParsedWritten ==
  ASSUME NEW list \in Lists, NEW s, Ended(s)
  PROVE  \A i \in 1..Len(list) : \A a \in 1..Len(s) :
            At(s, a, Written(list)[i]) /\ a + Len(Written(list)[i]) = Len(s) =>
                Says(list, i, List(s)[a])
<1> DEFINE n == Len(list)
           w(i) == Written(list)[i]
           Q(i) == \A a \in 1..Len(s) :
                      At(s, a, w(i)) /\ a + Len(w(i)) = Len(s) => Says(list, i, List(s)[a])
           S == {i \in 1..n : Q(i)}
<1>1. n \in Nat /\ Len(s) \in Nat /\ s[Len(s)] = EOI
  BY ListsAre DEF Ended
<1>2. ASSUME NEW i \in 1..n, \A j \in i + 1..n : j \in S PROVE i \in S
  <2>1. SUFFICES ASSUME NEW a \in 1..Len(s), At(s, a, w(i)), a + Len(w(i)) = Len(s)
                 PROVE  Says(list, i, List(s)[a])
    OBVIOUS
  <2> DEFINE set == Setting(list[i])
             m == Len(set)
             o == OptionAt(s, a)
  <2>2. /\ IsSetting(list[i]) /\ m \in Nat \ {0} /\ set[1] = list[i].name
        /\ list[i].name \in Names
    BY ListsAre, SettingIs DEF IsSetting
  <2>3. i < n => w(i + 1) \in Seq(Tokens) /\ Len(w(i + 1)) \in Nat
    <3>1. i < n => i + 1 \in 1..n
      BY <1>1
    <3>2. i < n => w(i + 1) \in Seq(Tokens)
      BY <3>1, WrittenIsText
    <3> QED
      BY <3>2
  <2>4. /\ Len(w(i)) \in Nat
        /\ i = n => w(i) = set
        /\ i < n => /\ Len(w(i)) = m + 2 + Len(w(i + 1))
                    /\ \A k \in 1..m : w(i)[k] = set[k]
                    /\ w(i)[m + 1] = Comma /\ w(i)[m + 2] = Space
                    /\ \A k \in 1..Len(w(i + 1)) : w(i)[m + 2 + k] = w(i + 1)[k]
    BY <2>3, WrittenParts
  <2>5. \A k \in 1..Len(w(i)) : s[a + k - 1] = w(i)[k]
    BY <2>1 DEF At
  <2> HIDE DEF w, set
  <2>6. i = n \/ i < n
    BY <1>1
  <2>7. At(s, a, set)
    <3>1. m <= Len(w(i)) /\ \A k \in 1..m : w(i)[k] = set[k]
      BY <2>2, <2>3, <2>4, <2>6
    <3> QED
      BY <1>1, <2>1, <2>2, <2>4, <2>5, <3>1 DEF At
  <2>8. s[a] \in Names
    <3>1. 1 \in 1..m /\ a + 1 - 1 = a
      BY <1>1, <2>2
    <3> QED
      BY <2>2, <2>7, <3>1 DEF At
  <2>9. o \in Option
    BY <2>8, OptionAtType
  <2>10. CASE i = n
    <3>1. s[a + m] = EOI
      BY <1>1, <2>1, <2>4, <2>10
    <3>2. o = Parsed(list[i].name, list[i].value, a + m)
      BY <2>2, <2>7, <3>1, OptionOfSetting DEF set
    <3>3. List(s)[a] = <<o>>
      <4>1. o.next = a + m
        BY <3>2 DEF Parsed
      <4> QED
        BY <2>8, <3>1, <4>1, ListDef DEF ListBody
    <3> HIDE DEF o
    <3>4. <<o>> \in Seq(Option) /\ Len(<<o>>) = 1 /\ <<o>>[1] = o
      BY <2>9
    <3>5. o.name = list[i].name /\ o.value = list[i].value
      BY <3>2 DEF Parsed
    <3> QED
      BY <1>1, <2>10, <3>3, <3>4, <3>5 DEF Says
  <2>11. CASE i < n
    <3> DEFINE v == w(i + 1)
               b == a + m + 2
    <3>1. /\ Len(v) \in Nat /\ Len(w(i)) = m + 2 + Len(v)
          /\ \A k \in 1..Len(v) : w(i)[m + 2 + k] = v[k]
      BY <2>3, <2>4, <2>11
    <3>2. s[a + m] = Comma /\ s[a + m + 1] = Space
      <4>1. m + 1 \in 1..Len(w(i)) /\ m + 2 \in 1..Len(w(i))
        BY <2>2, <3>1
      <4>2. a + (m + 1) - 1 = a + m /\ a + (m + 2) - 1 = a + m + 1
        BY <1>1, <2>2
      <4> QED
        BY <2>4, <2>5, <2>11, <4>1, <4>2
    <3>3. o = Parsed(list[i].name, list[i].value, a + m)
      BY <2>2, <2>7, <3>2, OptionOfSetting DEF set
    <3>4. i + 1 \in 1..n /\ i + 1 \in i + 1..n /\ i \in 1..n - 1
      BY <1>1, <2>11
    <3>5. Len(v) # 0 /\ v[1] \in Names
      BY <3>4, WrittenBegins DEF w
    <3> HIDE DEF v
    <3>6. /\ b \in 1..Len(s) /\ b + Len(v) = Len(s)
          /\ a + m + 1 \in 1..Len(s)
      BY <1>1, <2>1, <2>2, <3>1
    <3>7. ASSUME NEW k \in 1..Len(v) PROVE s[b + k - 1] = v[k]
      <4>1. m + 2 + k \in 1..Len(w(i)) /\ a + (m + 2 + k) - 1 = b + k - 1
        BY <1>1, <2>2, <3>1
      <4> QED
        BY <2>5, <3>1, <4>1
    <3>8. At(s, b, v)
      BY <1>1, <3>1, <3>6, <3>7 DEF At
    <3>9. Skip(s, a + m + 1) = b
      <4>1. s[b] \in Names /\ s[b] # Space
        <5>1. 1 \in 1..Len(v) /\ b + 1 - 1 = b
          BY <1>1, <2>2, <3>1, <3>5
        <5> QED
          BY <3>5, <3>7, <5>1, TokensDiffer
      <4>2. IsPast(s, a + m + 1, {Space}, b)
        <5>1. b \in a + m + 1..Len(s)
          BY <1>1, <2>2, <3>6
        <5>2. ASSUME NEW k \in a + m + 1..b - 1 PROVE s[k] \in {Space}
          <6>1. k = a + m + 1
            BY <1>1, <2>2
          <6> QED
            BY <3>2, <6>1
        <5> QED
          BY <4>1, <5>1, <5>2 DEF IsPast
      <4> QED
        BY <1>1, <3>6, <4>2, PastUnique DEF Skip
    <3>10. Says(list, i + 1, List(s)[b])
      <4>1. Q(i + 1)
        BY <1>2, <3>4
      <4> QED
        BY <3>6, <3>8, <4>1 DEF v, w
    <3>11. List(s)[a] = <<o>> \o List(s)[b]
      <4>1. o.next = a + m
        BY <3>3 DEF Parsed
      <4>2. List(s)[a] = Followed(o, List(s)[b])
        BY <2>8, <3>2, <3>9, <4>1, ListDef, TokensDiffer DEF ListBody
      <4>3. List(s)[b] # Failure
        BY <3>10, FailureIsNone DEF Says
      <4> QED
        BY <4>2, <4>3 DEF Followed
    <3>12. o.name = list[i].name /\ o.value = list[i].value
      BY <3>3 DEF Parsed
    <3> HIDE DEF o
    <3> QED
      BY <1>1, <2>9, <3>4, <3>10, <3>11, <3>12, SaysMore
  <2> QED
    BY <2>6, <2>10, <2>11
<1> HIDE DEF S
<1>3. \A i \in 1..n : i \in S
  BY <1>1, <1>2, Downward
<1> QED
  BY <1>3 DEF S

LEMMA ParsedAsMeant ==
  ASSUME NEW list \in Lists
  PROVE  Render(list) \in Seq(Tokens) /\ Says(list, 1, Parse(Render(list)))
<1> DEFINE t == Render(list)
           s == Append(t, EOI)
           n == Len(list)
<1>1. n \in Nat
  BY ListsAre
<1>2. CASE n = 0
  <2> DEFINE S == {list[i] : i \in DOMAIN list}
  <2>1. list \in Seq(S)
    BY ListsAssumption
  <2>2. list = <<>>
    <3> HIDE DEF S
    <3> QED
      BY <1>2, <2>1
  <2>3. t = <<>> /\ t \in Seq(Tokens)
    BY <2>2 DEF Render
  <2> HIDE DEF t
  <2>4. Len(s) = 1 /\ s[1] = EOI
    <3>1. Len(s) = Len(t) + 1 /\ s[Len(t) + 1] = EOI
      BY <2>3, EndedText
    <3>2. Len(t) = 0
      BY <2>3
    <3> QED
      BY <3>1, <3>2
  <2>5. Skip(s, 1) = 1
    <3> HIDE DEF s
    <3>1. Len(s) \in Nat /\ 1 \in 1..Len(s) /\ s[1] # Space
      BY <2>4, TokensDiffer
    <3> QED
      BY <3>1, SkipNone
  <2>6. Parse(t) = <<>>
    BY <2>4, <2>5 DEF Parse
  <2>7. Says(list, 1, <<>>)
    BY <1>1, <1>2 DEF Says
  <2> QED
    BY <2>3, <2>6, <2>7 DEF t
<1>3. CASE n # 0
  <2>1. 1 \in 1..n /\ list # <<>>
    BY <1>1, <1>3
  <2>2. t = Written(list)[1] /\ t \in Seq(Tokens)
    BY <2>1, WrittenIsText DEF Render
  <2>3. Len(t) \in Nat \ {0} /\ t[1] \in Names
    BY <2>1, <2>2, WrittenBegins
  <2> HIDE DEF t
  <2>4. /\ Ended(s) /\ Len(s) = Len(t) + 1
        /\ \A i \in 1..Len(t) : s[i] = t[i]
    BY <2>2, EndedText
  <2>5. s[1] \in Names /\ 1 \in 1..Len(s) /\ Len(s) \in Nat
    BY <2>3, <2>4
  <2>6. s[1] # Space /\ s[1] # EOI
    BY <2>5, TokensDiffer DEF Tokens
  <2>7. Skip(s, 1) = 1
    <3> HIDE DEF s
    <3> QED
      BY <2>5, <2>6, SkipNone
  <2>8. At(s, 1, t) /\ 1 + Len(t) = Len(s)
    <3>1. \A k \in 1..Len(t) : s[1 + k - 1] = t[k]
      BY <2>3, <2>4
    <3> QED
      BY <2>3, <2>4, <2>5, <3>1 DEF At
  <2>9. Says(list, 1, List(s)[1])
    BY <2>1, <2>2, <2>4, <2>5, <2>8, ParsedWritten
  <2>10. Parse(t) = List(s)[1]
    BY <2>6, <2>7 DEF Parse
  <2> QED
    BY <2>2, <2>9, <2>10 DEF t
<1> QED
  BY <1>2, <1>3

-----------------------------------------------------------------------------
(* Applying options.                                                       *)

\* The effect of the first k options of a list.
Upto(list, k) ==
    [name \in Options |->
        LET set == {i \in 1..k : list[i].name = name} IN
        IF set = {} THEN Defaults[name]
        ELSE Value(list[CHOOSE i \in set : \A j \in set : j <= i])]

LEMMA EffectIsUpto == \A list : Effect(list) = Upto(list, Len(list))
BY DEF Effect, Upto

LEMMA UptoNone == \A list : Upto(list, 0) = Defaults
<1>1. SUFFICES ASSUME NEW list PROVE Upto(list, 0) = Defaults
  OBVIOUS
<1>2. \A name : {i \in 1..0 : list[i].name = name} = {}
  OBVIOUS
<1>3. Defaults = [name \in Options |-> Defaults[name]]
  BY DEF Defaults
<1> QED
  BY <1>2, <1>3 DEF Upto

LEMMA UptoStep ==
  ASSUME NEW list, NEW k \in Nat, list[k + 1].name \in Options
  PROVE  Upto(list, k + 1) = [Upto(list, k) EXCEPT ![list[k + 1].name] = Value(list[k + 1])]
<1> DEFINE set(m, name) == {i \in 1..m : list[i].name = name}
           last(S) == CHOOSE i \in S : \A j \in S : j <= i
           own == list[k + 1].name
           v(S, name) == IF S = {} THEN Defaults[name] ELSE Value(list[last(S)])
<1>1. Upto(list, k) = [name \in Options |-> v(set(k, name), name)]
  BY DEF Upto
<1>2. Upto(list, k + 1) = [name \in Options |-> v(set(k + 1, name), name)]
  BY DEF Upto
<1>3. ASSUME NEW name \in Options, name # own
      PROVE  set(k + 1, name) = set(k, name)
  BY <1>3
<1>4. k + 1 \in set(k + 1, own) /\ \A j \in set(k + 1, own) : j \in Int /\ j <= k + 1
  OBVIOUS
<1>5. last(set(k + 1, own)) = k + 1
  <2> HIDE DEF set
  <2> QED
    BY <1>4
<1>6. v(set(k + 1, own), own) = Value(list[k + 1])
  <2> HIDE DEF set, last
  <2> QED
    BY <1>4, <1>5
<1> HIDE DEF v, set
<1> QED
  BY <1>1, <1>2, <1>3, <1>6

LEMMA Greatest ==
  ASSUME NEW n \in Nat, NEW S, S \subseteq 1..n, S # {}
  PROVE  \E x \in S : \A y \in S : y <= x
<1> DEFINE T == {n - x : x \in S}
<1>1. T \subseteq Nat /\ T # {}
  <2>1. \A x \in S : n - x \in Nat
    OBVIOUS
  <2> QED
    BY <2>1
<1>2. PICK z \in T : \A y \in T : z <= y
  <2> HIDE DEF T
  <2> QED
    BY <1>1, Least
<1>3. PICK x \in S : z = n - x
  OBVIOUS
<1>4. ASSUME NEW y \in S PROVE y <= x
  <2>1. n - y \in T /\ y \in Int /\ x \in Int
    OBVIOUS
  <2>2. z <= n - y
    BY <1>2, <2>1
  <2> QED
    BY <1>3, <2>1, <2>2
<1> QED
  BY <1>4

\* Lists of options of the same names: of each name the same one holds.
LEMMA EffectOfBoth ==
  ASSUME NEW a, NEW b, Len(a) \in Nat, Len(b) = Len(a),
         \A i \in 1..Len(a) : a[i].name = b[i].name
  PROVE  \A name \in Options :
            \/ Effect(a)[name] = Defaults[name] /\ Effect(b)[name] = Defaults[name]
            \/ \E i \in 1..Len(a) :
                  /\ a[i].name = name
                  /\ Effect(a)[name] = Value(a[i]) /\ Effect(b)[name] = Value(b[i])
<1> DEFINE set(l, name) == {i \in 1..Len(l) : l[i].name = name}
           last(S) == CHOOSE i \in S : \A j \in S : j <= i
           v(l, S, name) == IF S = {} THEN Defaults[name] ELSE Value(l[last(S)])
<1>1. SUFFICES ASSUME NEW name \in Options
               PROVE  \/ Effect(a)[name] = Defaults[name] /\ Effect(b)[name] = Defaults[name]
                      \/ \E i \in 1..Len(a) :
                            /\ a[i].name = name
                            /\ Effect(a)[name] = Value(a[i]) /\ Effect(b)[name] = Value(b[i])
  OBVIOUS
<1>2. \A l : Effect(l)[name] = v(l, set(l, name), name)
  BY DEF Effect
<1> DEFINE S == set(a, name)
<1>3. set(b, name) = S /\ S \subseteq 1..Len(a) /\ \A i \in S : a[i].name = name
  OBVIOUS
<1>4. CASE S = {}
  <2> HIDE DEF S
  <2>1. Effect(a)[name] = v(a, S, name) /\ Effect(b)[name] = v(b, S, name)
    BY <1>2, <1>3 DEF S
  <2> QED
    BY <1>4, <2>1
<1>5. CASE S # {}
  <2>1. last(S) \in S
    <3> HIDE DEF S
    <3>1. \E x \in S : \A y \in S : y <= x
      BY <1>3, <1>5, Greatest
    <3> QED
      BY <3>1
  <2>2. Effect(a)[name] = v(a, S, name) /\ Effect(b)[name] = v(b, S, name)
    <3> HIDE DEF v
    <3> QED
      BY <1>2, <1>3
  <2> HIDE DEF S, last
  <2>3. Effect(a)[name] = Value(a[last(S)]) /\ Effect(b)[name] = Value(b[last(S)])
    BY <1>5, <2>2
  <2> QED
    BY <1>3, <2>1, <2>3
<1> QED
  BY <1>4, <1>5

\* Options that say the same have the same effect.
LEMMA SameEffect ==
  ASSUME NEW a, NEW b, Len(a) \in Nat, Len(b) = Len(a),
         \A i \in 1..Len(a) : a[i].name = b[i].name /\ Value(a[i]) = Value(b[i])
  PROVE  Effect(a) = Effect(b)
<1>1. \A name \in Options : Effect(a)[name] = Effect(b)[name]
  BY EffectOfBoth
<1>2. \A l : Effect(l) = [name \in Options |-> Effect(l)[name]]
  BY DEF Effect
<1> QED
  BY <1>1, <1>2

\* What an option can be that is valid.
LEMMA ValidOption ==
  ASSUME NEW o \in Option, Value(o) # Panic
  PROVE  /\ o.name \in Options
         /\ o.name = "phasicj_exec" =>
               /\ Value(o) = o.value /\ o.value \in Args \ {<<>>} /\ o.value[1] \in Words
         /\ o.name \in Flags => Value(o) = Eval(o.value)
<1>1. o.name \in Options
  BY DEF Value, Options
<1>2. "phasicj_exec" \notin Flags
  BY DEF Flags
<1>3. ASSUME o.name = "phasicj_exec"
      PROVE  Value(o) = o.value /\ o.value \in Args \ {<<>>} /\ o.value[1] \in Words
  <2>1. Value(o) = Path(o.value)
    BY <1>2, <1>3 DEF Value
  <2>2. Path(o.value) = o.value /\ o.value # NoValue /\ o.value # <<>>
    BY <2>1 DEF Path
  <2>3. IsValue(o.value)
    BY DEF Option
  <2> QED
    BY <2>1, <2>2, <2>3 DEF IsValue
<1>4. o.name \in Flags => Value(o) = Eval(o.value)
  BY <1>2 DEF Value
<1> QED
  BY <1>1, <1>3, <1>4

\* The first k options of the text have been applied.
Applied(k) ==
    /\ Parse(text) \in Seq(Option) /\ k \in 0..Len(Parse(text))
    /\ \A i \in 1..k : Value(Parse(text)[i]) # Panic
    /\ conf = Upto(Parse(text), k)
    /\ todo \in Seq(Option) /\ Len(todo) = Len(Parse(text)) - k
    /\ \A j \in 1..Len(todo) : todo[j] = Parse(text)[k + j]

Inv ==
    /\ text \in Seq(Tokens)
    /\ meant # NoValue => meant \in Lists /\ text = Render(meant)
    /\ status \in {"parsing", "applying", "done", "panicked"}
    /\ status = "parsing" => conf = Defaults
    /\ status \in {"applying", "done"} => \E k \in Nat : Applied(k)
    /\ status = "done" => todo = <<>>
    /\ status = "panicked" =>
          \/ Parse(text) = Failure
          \/ /\ Parse(text) \in Seq(Option)
             /\ \E i \in 1..Len(Parse(text)) : Value(Parse(text)[i]) = Panic
    /\ conf = [o \in Options |-> conf[o]]
    /\ \/ conf["phasicj_exec"] = NoValue
       \/ /\ conf["phasicj_exec"] \in Args \ {<<>>}
          /\ conf["phasicj_exec"][1] \in Words

LEMMA DefaultsAre ==
  Defaults = [o \in Options |-> Defaults[o]] /\ Defaults["phasicj_exec"] = NoValue
<1>1. "phasicj_exec" \in Options /\ "phasicj_exec" \notin Flags
  BY DEF Options, Flags
<1> QED
  BY <1>1 DEF Defaults

LEMMA InitInv == Init => Inv
<1>1. SUFFICES ASSUME Init PROVE Inv
  OBVIOUS
<1>2. text \in Seq(Tokens) /\ (meant # NoValue => meant \in Lists /\ text = Render(meant))
  <2>1. CASE text \in Texts /\ meant = NoValue
    <3>1. text \in Seq(Tokens)
      BY <2>1, OptionsAssumption DEF Tokens
    <3> QED
      BY <2>1, <3>1
  <2>2. CASE meant \in Lists /\ text = Render(meant)
    BY <2>2, ParsedAsMeant
  <2> QED
    BY <1>1, <2>1, <2>2 DEF Init
<1>3. status = "parsing" /\ conf = Defaults
  BY <1>1 DEF Init
<1> QED
  BY <1>2, <1>3, DefaultsAre DEF Inv

LEMMA ParseTextInv == Inv /\ ParseText => Inv'
<1>1. SUFFICES ASSUME Inv, ParseText PROVE Inv'
  OBVIOUS
<1>2. text' = text /\ meant' = meant /\ conf' = conf /\ conf = Defaults
  BY <1>1 DEF ParseText, Inv
<1>3. CASE Parse(text) = Failure
  <2>1. status' = "panicked"
    BY <1>1, <1>3 DEF ParseText
  <2> QED
    BY <1>1, <1>2, <1>3, <2>1 DEF Inv
<1>4. CASE Parse(text) # Failure
  <2>1. status' = "applying" /\ todo' = Parse(text)
    BY <1>1, <1>4 DEF ParseText
  <2>2. Parse(text) \in Seq(Option)
    BY <1>1, <1>4, ParseIs DEF Inv
  <2>3. Applied(0)'
    <3> DEFINE l == Parse(text)
    <3>1. l \in Seq(Option) /\ todo' = l /\ l' = l
      BY <1>2, <2>1, <2>2
    <3>2. conf' = Upto(l, 0)
      BY <1>2, UptoNone
    <3> HIDE DEF l
    <3>3. 0 \in 0..Len(l) /\ Len(l) = Len(l) - 0 /\ \A j \in 1..Len(l) : 0 + j = j
      BY <3>1
    <3> QED
      BY <3>1, <3>2, <3>3 DEF Applied, l
  <2> QED
    BY <1>1, <1>2, <2>1, <2>3 DEF Inv
<1> QED
  BY <1>3, <1>4

LEMMA ApplyInv == Inv /\ Apply => Inv'
<1>1. SUFFICES ASSUME Inv, Apply PROVE Inv'
  OBVIOUS
<1> DEFINE l == Parse(text)
           o == Head(todo)
<1>2. /\ text' = text /\ meant' = meant /\ l' = l /\ status = "applying"
      /\ todo # <<>> /\ todo' = Tail(todo)
  BY <1>1 DEF Apply
<1>3. PICK k \in Nat : Applied(k)
  BY <1>1, <1>2 DEF Inv
<1> HIDE DEF l
<1>4. /\ l \in Seq(Option) /\ k \in 0..Len(l) /\ todo \in Seq(Option)
      /\ Len(todo) = Len(l) - k
      /\ \A j \in 1..Len(todo) : todo[j] = l[k + j]
  BY <1>3 DEF Applied, l
<1>5. /\ o = l[k + 1] /\ o \in Option /\ k + 1 \in 1..Len(l)
      /\ Tail(todo) \in Seq(Option) /\ Len(Tail(todo)) = Len(todo) - 1
      /\ \A j \in 1..Len(Tail(todo)) : Tail(todo)[j] = todo[j + 1]
  <2>1. Len(todo) \in Nat \ {0}
    BY <1>2, <1>4
  <2>2. o = todo[1] /\ 1 \in 1..Len(todo)
    BY <1>4, <2>1
  <2>3. k + 1 \in 1..Len(l)
    BY <1>4, <2>1
  <2>4. o \in Option
    BY <1>4, <2>2
  <2> QED
    BY <1>2, <1>4, <2>2, <2>3, <2>4
<1> HIDE DEF o
<1>6. CASE Value(o) = Panic
  <2>1. status' = "panicked" /\ conf' = conf
    BY <1>1, <1>6 DEF Apply, o
  <2>2. \E i \in 1..Len(l) : Value(l[i]) = Panic
    BY <1>5, <1>6
  <2> QED
    BY <1>1, <1>2, <1>4, <2>1, <2>2 DEF Inv, l
<1>7. CASE Value(o) # Panic
  <2>1. status' = status /\ conf' = [conf EXCEPT ![o.name] = Value(o)]
    BY <1>1, <1>7 DEF Apply, o
  <2>2. o.name \in Options
    BY <1>5, <1>7, ValidOption
  <2>3. conf' = Upto(l, k + 1)
    <3>1. conf = Upto(l, k)
      BY <1>3 DEF Applied, l
    <3> QED
      BY <1>5, <2>1, <2>2, <3>1, UptoStep
  <2>4. \A i \in 1..k + 1 : Value(l[i]) # Panic
    <3>1. \A i \in 1..k : Value(l[i]) # Panic
      BY <1>3 DEF Applied, l
    <3> QED
      BY <1>5, <1>7, <3>1
  <2>5. \A j \in 1..Len(todo') : todo'[j] = l[k + 1 + j]
    <3>1. SUFFICES ASSUME NEW j \in 1..Len(Tail(todo)) PROVE Tail(todo)[j] = l[k + 1 + j]
      BY <1>2
    <3>2. j + 1 \in 1..Len(todo) /\ k + (j + 1) = k + 1 + j
      BY <1>4, <1>5
    <3> QED
      BY <1>4, <1>5, <3>2
  <2>6. Len(todo') = Len(l) - (k + 1) /\ k + 1 \in 0..Len(l)
    BY <1>2, <1>4, <1>5
  <2>7. Applied(k + 1)'
    BY <1>2, <1>4, <1>5, <2>3, <2>4, <2>5, <2>6 DEF Applied, l
  <2>8. conf' = [p \in Options |-> conf'[p]]
    BY <1>1, <2>1 DEF Inv
  <2>9. \/ conf'["phasicj_exec"] = NoValue
        \/ conf'["phasicj_exec"] \in Args \ {<<>>} /\ conf'["phasicj_exec"][1] \in Words
    <3>1. "phasicj_exec" \in Options
      BY DEF Options
    <3>2. CASE o.name = "phasicj_exec"
      <4>1. conf'["phasicj_exec"] = Value(o)
        BY <1>1, <2>1, <3>1, <3>2 DEF Inv
      <4> QED
        BY <1>5, <1>7, <3>2, <4>1, ValidOption
    <3>3. CASE o.name # "phasicj_exec"
      <4>1. conf'["phasicj_exec"] = conf["phasicj_exec"]
        BY <1>1, <2>1, <3>1, <3>3 DEF Inv
      <4> QED
        BY <1>1, <4>1 DEF Inv
    <3> QED
      BY <3>2, <3>3
  <2>10. k + 1 \in Nat
    OBVIOUS
  <2> QED
    BY <1>1, <1>2, <2>1, <2>7, <2>8, <2>9, <2>10 DEF Inv
<1> QED
  BY <1>6, <1>7

LEMMA NextInv == Inv /\ [Next]_vars => Inv'
<1>1. SUFFICES ASSUME Inv, [Next]_vars PROVE Inv'
  OBVIOUS
<1>2. CASE ParseText
  BY <1>1, <1>2, ParseTextInv
<1>3. CASE Apply
  BY <1>1, <1>3, ApplyInv
<1>4. CASE Done
  BY <1>1, <1>4 DEF Done, Inv, Applied
<1>5. CASE UNCHANGED vars
  BY <1>1, <1>5 DEF vars, Inv, Applied
<1> QED
  BY <1>1, <1>2, <1>3, <1>4, <1>5 DEF Next

LEMMA Invariant == Spec => []Inv
BY InitInv, NextInv, PTL DEF Spec

\* The program that the agent is told to run has a name that does not begin with
\* a space, whatever text Agent_OnLoad is given.
THEOREM ExecHasName == Spec => []ExecIsNamed
<1>1. Inv => ExecIsNamed
  <2> DEFINE exec == conf["phasicj_exec"]
  <2>1. SUFFICES ASSUME Inv, exec # NoValue PROVE Head(exec \o <<Space>>) \in Words
    BY DEF ExecIsNamed
  <2>2. exec \in Seq(Blank) /\ exec # <<>> /\ exec[1] \in Words
    BY <2>1 DEF Inv, Args, Blank
  <2> HIDE DEF exec
  <2>3. Head(exec \o <<Space>>) = exec[1]
    <3>1. <<Space>> \in Seq(Blank)
      BY DEF Blank
    <3>2. Len(exec) \in Nat \ {0} /\ exec \o <<Space>> \in Seq(Blank)
      BY <2>2, <3>1
    <3>3. (exec \o <<Space>>)[1] = exec[1]
      BY <2>2, <3>1, <3>2
    <3> QED
      BY <2>2, <3>1, <3>2, <3>3
  <2> QED
    BY <2>2, <2>3
<1> QED
  BY <1>1, Invariant, PTL

\* A list of settings of any length that is written down has its effect, and keeps
\* the JVM from starting only if one of its settings is not valid.
THEOREM WrittenSettingsHaveEffect == Spec => []WrittenSettingsHold
<1>1. Inv => WrittenSettingsHold
  <2>1. SUFFICES ASSUME Inv, meant # NoValue
                 PROVE  /\ status = "done" => conf = Effect(meant)
                        /\ status = "panicked" =>
                              \E i \in 1..Len(meant) : Value(meant[i]) = Panic
    BY DEF WrittenSettingsHold
  <2> DEFINE l == Parse(text)
  <2>2. meant \in Lists /\ Says(meant, 1, l)
    BY <2>1, ParsedAsMeant DEF Inv
  <2>3. Len(meant) \in Nat
    BY <2>2, ListsAre
  <2> HIDE DEF l
  <2>4. Len(l) = Len(meant) /\ l \in Seq(Option)
    BY <2>2, <2>3 DEF Says
  <2>5. \A i \in 1..Len(l) : l[i].name = meant[i].name /\ l[i].value = meant[i].value
    <3>1. SUFFICES ASSUME NEW i \in 1..Len(l)
                   PROVE  l[i].name = meant[i].name /\ l[i].value = meant[i].value
      OBVIOUS
    <3>2. 1 + i - 1 = i
      BY <2>3, <2>4
    <3> QED
      BY <2>2, <3>2 DEF Says
  <2>6. \A i \in 1..Len(l) : Value(l[i]) = Value(meant[i])
    BY <2>5 DEF Value
  <2>7. ASSUME status = "done" PROVE conf = Effect(meant)
    <3>1. PICK k \in Nat : Applied(k)
      BY <2>1, <2>7 DEF Inv
    <3>2. todo = <<>>
      BY <2>1, <2>7 DEF Inv
    <3>3. k = Len(l)
      <4>1. Len(todo) = Len(l) - k /\ Len(todo) = 0
        BY <3>1, <3>2 DEF Applied, l
      <4> QED
        BY <2>3, <2>4, <4>1
    <3>4. conf = Effect(l)
      BY <3>1, <3>3, EffectIsUpto DEF Applied, l
    <3> QED
      BY <2>3, <2>4, <2>5, <2>6, <3>4, SameEffect
  <2>8. ASSUME status = "panicked" PROVE \E i \in 1..Len(meant) : Value(meant[i]) = Panic
    <3>1. l # Failure
      BY <2>4, FailureIsNone
    <3>2. PICK i \in 1..Len(l) : Value(l[i]) = Panic
      BY <2>1, <2>8, <3>1 DEF Inv, l
    <3> QED
      BY <2>4, <2>6, <3>2
  <2> QED
    BY <2>7, <2>8
<1> QED
  BY <1>1, Invariant, PTL

-----------------------------------------------------------------------------
(* Spaces.                                                                 *)

Symbols == Tokens \union {EOI}

SqueezedBody(s, f, i) ==
    IF i = 0 THEN <<>>
    ELSE IF s[i] = Space THEN f[i - 1] ELSE Append(f[i - 1], s[i])

\* The recursion of Squeezed is well-founded.
LEMMA SqueezedDef ==
  ASSUME NEW s, Len(s) \in Nat
  PROVE  \A i \in 0..Len(s) : Squeezed(s)[i] = SqueezedBody(s, Squeezed(s), i)
<1> DEFINE n == Len(s)
           Solves(f, k) == /\ f = [i \in 0..n |-> f[i]]
                           /\ \A i \in 0..k : f[i] = SqueezedBody(s, f, i)
           K == {k \in Nat : k <= n => \E f : Solves(f, k)}
<1>1. n \in Nat
  OBVIOUS
<1>2. ASSUME NEW k \in Nat, \A m \in 0..k - 1 : m \in K
      PROVE  k \in K
  <2>1. SUFFICES ASSUME k <= n PROVE \E f : Solves(f, k)
    OBVIOUS
  <2>2. CASE k = 0
    <3>1. Solves([i \in 0..n |-> <<>>], k)
      BY <1>1, <2>2 DEF SqueezedBody
    <3> QED
      BY <3>1
  <2>3. CASE k # 0
    <3>1. k - 1 \in K /\ k - 1 <= n
      BY <1>1, <1>2, <2>1, <2>3
    <3>2. PICK f : Solves(f, k - 1)
      BY <3>1
    <3> DEFINE g == [i \in 0..n |-> IF i = k THEN SqueezedBody(s, f, k) ELSE f[i]]
    <3>3. \A i \in 0..k : SqueezedBody(s, g, i) = SqueezedBody(s, f, i)
      BY <1>1, <2>1, <2>3 DEF SqueezedBody
    <3>4. ASSUME NEW i \in 0..k PROVE g[i] = SqueezedBody(s, g, i)
      <4>1. CASE i = k
        BY <1>1, <2>1, <3>3, <4>1
      <4>2. CASE i # k
        <5>1. i \in 0..k - 1 /\ g[i] = f[i]
          BY <1>1, <2>1, <4>2
        <5> QED
          BY <3>2, <3>3, <5>1
      <4> QED
        BY <4>1, <4>2
    <3>5. Solves(g, k)
      BY <3>4
    <3> QED
      BY <3>5
  <2> QED
    BY <2>2, <2>3
<1>3. n \in K
  <2> HIDE DEF K
  <2>1. \A k \in Nat : k \in K
    BY <1>2, StrongInduction
  <2> QED
    BY <1>1, <2>1
<1>4. PICK f : Solves(f, n)
  BY <1>1, <1>3
<1>5. f = [i \in 0..n |-> SqueezedBody(s, f, i)]
  BY <1>1, <1>4
<1>6. Squeezed(s) = CHOOSE g : g = [i \in 0..n |-> SqueezedBody(s, g, i)]
  BY DEF Squeezed, SqueezedBody
<1>7. Squeezed(s) = [i \in 0..n |-> SqueezedBody(s, Squeezed(s), i)]
  BY <1>5, <1>6
<1> QED
  BY <1>7

\* How many symbols there are up to a place that are no spaces: where the symbol
\* at that place is in the squeezed text.
Pos(s, i) == Len(Squeezed(s)[i])

\* One step of squeezing.
LEMMA SqueezedStep ==
  ASSUME NEW s \in Seq(Symbols)
  PROVE  /\ Squeezed(s)[0] = <<>>
         /\ \A i \in 1..Len(s) :
               Squeezed(s)[i] = IF s[i] = Space THEN Squeezed(s)[i - 1]
                                ELSE Append(Squeezed(s)[i - 1], s[i])
<1>1. Len(s) \in Nat
  OBVIOUS
<1>2. \A i \in 0..Len(s) : Squeezed(s)[i] = SqueezedBody(s, Squeezed(s), i)
  BY <1>1, SqueezedDef
<1>3. Squeezed(s)[0] = <<>>
  <2>1. 0 \in 0..Len(s)
    BY <1>1
  <2> QED
    BY <1>2, <2>1 DEF SqueezedBody
<1>4. ASSUME NEW i \in 1..Len(s)
      PROVE  Squeezed(s)[i] = IF s[i] = Space THEN Squeezed(s)[i - 1]
                              ELSE Append(Squeezed(s)[i - 1], s[i])
  <2>1. i \in 0..Len(s) /\ i # 0
    BY <1>1
  <2> QED
    BY <1>2, <2>1 DEF SqueezedBody
<1> QED
  BY <1>3, <1>4

IsSqueezed(s, i) ==
    LET q == Squeezed(s)[i] IN
    /\ q \in Seq(Symbols \ {Space})
    /\ \A j \in 0..i : /\ Pos(s, j) \in Nat /\ Pos(s, j) <= Len(q)
                       /\ \A k \in 1..Pos(s, j) : q[k] = Squeezed(s)[j][k]
    /\ \A j \in 1..i : s[j] # Space => Pos(s, j) = Pos(s, j - 1) + 1 /\ q[Pos(s, j)] = s[j]
    /\ \A j \in 1..i : s[j] = Space => Pos(s, j) = Pos(s, j - 1)
    /\ \A k \in 1..Len(q) : \E j \in 1..i : s[j] # Space /\ Pos(s, j) = k

LEMMA SqueezedIs ==
  ASSUME NEW s \in Seq(Symbols)
  PROVE  \A i \in 0..Len(s) : IsSqueezed(s, i)
<1> DEFINE n == Len(s)
           q(i) == Squeezed(s)[i]
           K == {i \in Nat : i <= n => IsSqueezed(s, i)}
<1>1. n \in Nat
  OBVIOUS
<1>2. ASSUME NEW i \in Nat, \A m \in 0..i - 1 : m \in K
      PROVE  i \in K
  <2>1. SUFFICES ASSUME i <= n PROVE IsSqueezed(s, i)
    OBVIOUS
  <2>2. CASE i = 0
    <3>1. q(i) = <<>> /\ Pos(s, i) = 0
      BY <2>2, SqueezedStep DEF Pos
    <3> QED
      BY <2>2, <3>1 DEF IsSqueezed
  <2>3. CASE i # 0
    <3>1. i - 1 \in 0..i - 1 /\ i - 1 \in Nat /\ i - 1 <= n /\ i \in 1..n
      BY <1>1, <2>1, <2>3
    <3>2. IsSqueezed(s, i - 1)
      BY <1>2, <3>1
    <3> DEFINE p == q(i - 1)
    <3>3. Len(p) = Pos(s, i - 1)
      BY DEF Pos
    <3>4. p \in Seq(Symbols \ {Space}) /\ Len(p) \in Nat
      <4>1. p \in Seq(Symbols \ {Space})
        BY <3>2 DEF IsSqueezed
      <4> QED
        BY <4>1
    <3>5. /\ \A j \in 0..i - 1 : /\ Pos(s, j) \in Nat /\ Pos(s, j) <= Len(p)
                                 /\ \A k \in 1..Pos(s, j) : p[k] = q(j)[k]
          /\ \A j \in 1..i - 1 : s[j] # Space =>
                Pos(s, j) = Pos(s, j - 1) + 1 /\ p[Pos(s, j)] = s[j]
          /\ \A j \in 1..i - 1 : s[j] = Space => Pos(s, j) = Pos(s, j - 1)
          /\ \A k \in 1..Len(p) : \E j \in 1..i - 1 : s[j] # Space /\ Pos(s, j) = k
      BY <3>2 DEF IsSqueezed
    <3>6. CASE s[i] = Space
      <4>1. q(i) = p /\ Pos(s, i) = Pos(s, i - 1)
        BY <3>1, <3>6, SqueezedStep DEF Pos
      <4> HIDE DEF q
      <4>2. \A j \in 0..i : j \in 0..i - 1 \/ j = i
        OBVIOUS
      <4>3. \A j \in 1..i : j \in 1..i - 1 \/ j = i
        OBVIOUS
      <4>4. \A j \in 0..i : /\ Pos(s, j) \in Nat /\ Pos(s, j) <= Len(p)
                            /\ \A k \in 1..Pos(s, j) : p[k] = q(j)[k]
        BY <3>3, <3>5, <4>1, <4>2
      <4>5. \A j \in 1..i : s[j] # Space =>
               Pos(s, j) = Pos(s, j - 1) + 1 /\ p[Pos(s, j)] = s[j]
        BY <3>5, <3>6, <4>3
      <4>6. \A j \in 1..i : s[j] = Space => Pos(s, j) = Pos(s, j - 1)
        BY <3>5, <4>1, <4>3
      <4>7. \A k \in 1..Len(p) : \E j \in 1..i : s[j] # Space /\ Pos(s, j) = k
        BY <3>1, <3>5
      <4> QED
        BY <3>4, <4>1, <4>4, <4>5, <4>6, <4>7 DEF IsSqueezed, q
    <3>7. CASE s[i] # Space
      <4>1. q(i) = Append(p, s[i]) /\ s[i] \in Symbols \ {Space}
        <5>1. s[i] \in Symbols
          BY <3>1
        <5> QED
          BY <3>1, <3>7, <5>1, SqueezedStep
      <4>2. Pos(s, i) = Len(q(i))
        BY DEF Pos
      <4> HIDE DEF q
      <4> HIDE DEF p
      <4>3. /\ q(i) \in Seq(Symbols \ {Space}) /\ Len(q(i)) = Len(p) + 1
            /\ \A k \in 1..Len(p) : q(i)[k] = p[k]
            /\ q(i)[Len(p) + 1] = s[i]
        BY <3>4, <4>1
      <4>4. \A j \in 0..i : j \in 0..i - 1 \/ j = i
        OBVIOUS
      <4>5. \A j \in 1..i : j \in 1..i - 1 \/ j = i
        OBVIOUS
      <4>6. ASSUME NEW j \in 0..i
            PROVE  /\ Pos(s, j) \in Nat /\ Pos(s, j) <= Len(q(i))
                   /\ \A k \in 1..Pos(s, j) : q(i)[k] = q(j)[k]
        <5>1. CASE j = i
          BY <3>3, <3>4, <4>2, <4>3, <5>1
        <5>2. CASE j \in 0..i - 1
          <6>1. /\ Pos(s, j) \in Nat /\ Pos(s, j) <= Len(p)
                /\ \A k \in 1..Pos(s, j) : p[k] = q(j)[k]
            BY <3>5, <5>2
          <6>2. \A k \in 1..Pos(s, j) : k \in 1..Len(p)
            BY <3>4, <6>1
          <6> QED
            BY <3>4, <4>3, <6>1, <6>2
        <5> QED
          BY <4>4, <5>1, <5>2
      <4>7. ASSUME NEW j \in 1..i, s[j] # Space
            PROVE  Pos(s, j) = Pos(s, j - 1) + 1 /\ q(i)[Pos(s, j)] = s[j]
        <5>1. CASE j = i
          BY <3>3, <3>4, <4>2, <4>3, <5>1
        <5>2. CASE j \in 1..i - 1
          <6>1. Pos(s, j) = Pos(s, j - 1) + 1 /\ p[Pos(s, j)] = s[j]
            BY <3>5, <4>7, <5>2
          <6>2. Pos(s, j) \in Nat /\ Pos(s, j - 1) \in Nat /\ Pos(s, j) <= Len(p)
            BY <3>5, <5>2
          <6>3. Pos(s, j) \in 1..Len(p)
            BY <3>4, <6>1, <6>2
          <6> QED
            BY <4>3, <6>1, <6>3
        <5> QED
          BY <4>5, <5>1, <5>2
      <4>8. \A j \in 1..i : s[j] = Space => Pos(s, j) = Pos(s, j - 1)
        BY <3>5, <3>7, <4>5
      <4>9. ASSUME NEW k \in 1..Len(q(i))
            PROVE  \E j \in 1..i : s[j] # Space /\ Pos(s, j) = k
        <5>1. CASE k = Len(p) + 1
          BY <2>3, <3>7, <4>2, <4>3, <5>1
        <5>2. CASE k \in 1..Len(p)
          BY <3>1, <3>5, <5>2
        <5> QED
          BY <3>4, <4>3, <5>1, <5>2
      <4> QED
        BY <4>3, <4>6, <4>7, <4>8, <4>9 DEF IsSqueezed, q
    <3> QED
      BY <3>6, <3>7
  <2> QED
    BY <2>2, <2>3
<1> HIDE DEF K
<1>3. \A i \in Nat : i \in K
  BY <1>2, StrongInduction
<1> QED
  BY <1>1, <1>3 DEF K

\* Where symbols are in the squeezed text: in the same order, and nothing else is there.
LEMMA Places ==
  ASSUME NEW s \in Seq(Symbols)
  PROVE  /\ Squeeze(s) \in Seq(Symbols \ {Space}) /\ Len(Squeeze(s)) = Pos(s, Len(s))
         /\ Pos(s, 0) = 0 /\ \A i \in 0..Len(s) : Pos(s, i) \in Nat
         /\ \A i \in 1..Len(s) : s[i] # Space =>
               /\ Pos(s, i) = Pos(s, i - 1) + 1 /\ Pos(s, i) \in 1..Len(Squeeze(s))
               /\ Squeeze(s)[Pos(s, i)] = s[i]
         /\ \A i \in 1..Len(s) : s[i] = Space => Pos(s, i) = Pos(s, i - 1)
         /\ \A i, j \in 0..Len(s) : i <= j => Pos(s, i) <= Pos(s, j)
         /\ \A k \in 1..Len(Squeeze(s)) : \E i \in 1..Len(s) : s[i] # Space /\ Pos(s, i) = k
<1> DEFINE n == Len(s)
           z == Squeeze(s)
<1>1. n \in Nat /\ n \in 0..n
  OBVIOUS
<1>2. z = Squeezed(s)[n] /\ Len(z) = Pos(s, n)
  BY DEF Squeeze, Pos
<1>3. Pos(s, 0) = 0
  BY SqueezedStep DEF Pos
<1>4. \A i \in 0..n : IsSqueezed(s, i)
  BY SqueezedIs
<1>5. /\ z \in Seq(Symbols \ {Space})
      /\ \A j \in 0..n : Pos(s, j) \in Nat /\ Pos(s, j) <= Len(z)
      /\ \A j \in 1..n : s[j] # Space => Pos(s, j) = Pos(s, j - 1) + 1 /\ z[Pos(s, j)] = s[j]
      /\ \A j \in 1..n : s[j] = Space => Pos(s, j) = Pos(s, j - 1)
      /\ \A k \in 1..Len(z) : \E j \in 1..n : s[j] # Space /\ Pos(s, j) = k
  <2>1. IsSqueezed(s, n)
    BY <1>1, <1>4
  <2> HIDE DEF z
  <2> QED
    BY <1>2, <2>1 DEF IsSqueezed
<1> HIDE DEF z
<1>6. ASSUME NEW i \in 0..n, NEW j \in 0..n, i <= j PROVE Pos(s, i) <= Pos(s, j)
  <2>1. i \in 0..j /\ IsSqueezed(s, j)
    BY <1>4, <1>6
  <2>2. Pos(s, i) <= Len(Squeezed(s)[j])
    BY <2>1 DEF IsSqueezed
  <2> QED
    BY <2>2 DEF Pos
<1>7. ASSUME NEW j \in 1..n, s[j] # Space PROVE Pos(s, j) \in 1..Len(z)
  <2>1. j \in 0..n /\ j - 1 \in 0..n
    BY <1>1
  <2>2. /\ Pos(s, j) \in Nat /\ Pos(s, j) <= Len(z) /\ Pos(s, j - 1) \in Nat
        /\ Pos(s, j) = Pos(s, j - 1) + 1
    BY <1>5, <1>7, <2>1
  <2>3. Len(z) \in Nat
    BY <1>5
  <2> QED
    BY <2>2, <2>3
<1> QED
  BY <1>2, <1>3, <1>5, <1>6, <1>7 DEF z

\* A symbol that is no space comes behind all that is before it.
LEMMA Behind ==
  ASSUME NEW s \in Seq(Symbols), NEW i \in 0..Len(s), NEW j \in 1..Len(s),
         i < j, s[j] # Space
  PROVE  Pos(s, i) < Pos(s, j)
<1>1. j - 1 \in 0..Len(s) /\ i <= j - 1 /\ j \in 0..Len(s)
  OBVIOUS
<1>2. Pos(s, i) <= Pos(s, j - 1) /\ Pos(s, j) = Pos(s, j - 1) + 1
  BY <1>1, Places
<1>3. Pos(s, i) \in Nat /\ Pos(s, j - 1) \in Nat
  BY <1>1, Places
<1> QED
  BY <1>2, <1>3

LEMMA SqueezeType ==
  ASSUME NEW A, A \subseteq Symbols, NEW s \in Seq(A)
  PROVE  Squeeze(s) \in Seq(A)
<1> DEFINE z == Squeeze(s)
<1>1. s \in Seq(Symbols)
  BY WiderSeq
<1>2. z \in Seq(Symbols \ {Space})
  BY <1>1, Places
<1>3. ASSUME NEW k \in 1..Len(z) PROVE z[k] \in A
  <2>1. PICK i \in 1..Len(s) : s[i] # Space /\ Pos(s, i) = k
    BY <1>1, Places
  <2>2. z[k] = s[i]
    BY <1>1, <2>1, Places
  <2> QED
    BY <2>2
<1> HIDE DEF z
<1>4. Len(z) \in Nat /\ z = [k \in 1..Len(z) |-> z[k]]
  BY <1>2
<1>5. z \in Seq(A)
  BY <1>3, <1>4
<1> QED
  BY <1>5 DEF z

\* The end of the input stays at the end.
LEMMA SqueezedText ==
  ASSUME NEW t \in Seq(Tokens)
  PROVE  Squeeze(t) \in Seq(Tokens) /\ Squeeze(Append(t, EOI)) = Append(Squeeze(t), EOI)
<1> DEFINE s == Append(t, EOI)
           n == Len(t)
           K == {i \in Nat : i <= n => Squeezed(s)[i] = Squeezed(t)[i]}
<1>1. t \in Seq(Symbols) /\ s \in Seq(Symbols) /\ n \in Nat
  <2>1. Tokens \subseteq Symbols /\ EOI \in Symbols
    BY DEF Symbols
  <2>2. t \in Seq(Symbols)
    BY <2>1, WiderSeq
  <2> QED
    BY <2>1, <2>2
<1>2. Len(s) = n + 1 /\ s[n + 1] = EOI /\ \A i \in 1..n : s[i] = t[i]
  BY EndedText
<1> HIDE DEF s
<1>3. ASSUME NEW i \in Nat, \A m \in 0..i - 1 : m \in K PROVE i \in K
  <2>1. SUFFICES ASSUME i <= n PROVE Squeezed(s)[i] = Squeezed(t)[i]
    OBVIOUS
  <2>2. CASE i = 0
    BY <1>1, <2>2, SqueezedStep
  <2>3. CASE i # 0
    <3>1. i \in 1..n /\ i \in 1..Len(s) /\ i - 1 \in 0..i - 1 /\ i - 1 <= n
      BY <1>1, <1>2, <2>1, <2>3
    <3>2. Squeezed(s)[i - 1] = Squeezed(t)[i - 1] /\ s[i] = t[i]
      BY <1>2, <1>3, <3>1
    <3> QED
      BY <1>1, <3>1, <3>2, SqueezedStep
  <2> QED
    BY <2>2, <2>3
<1>4. \A i \in Nat : i \in K
  <2> HIDE DEF K
  <2> QED
    BY <1>3, StrongInduction
<1>5. Squeezed(s)[n] = Squeezed(t)[n]
  BY <1>1, <1>4
<1>6. Squeezed(s)[n + 1] = Append(Squeezed(s)[n], EOI)
  <2>1. n + 1 \in 1..Len(s) /\ n + 1 - 1 = n
    BY <1>1, <1>2
  <2>2. s[n + 1] = EOI /\ s[n + 1] # Space
    BY <1>2, TokensDiffer
  <2>3. ASSUME NEW i \in 1..Len(s), s[i] # Space
        PROVE  Squeezed(s)[i] = Append(Squeezed(s)[i - 1], s[i])
    BY <1>1, <2>3, SqueezedStep
  <2> QED
    BY <2>1, <2>2, <2>3
<1>7. Squeeze(s) = Append(Squeeze(t), EOI)
  BY <1>2, <1>5, <1>6 DEF Squeeze
<1>8. Squeeze(t) \in Seq(Tokens)
  <2>1. Tokens \subseteq Symbols
    BY DEF Symbols
  <2> QED
    BY <2>1, SqueezeType
<1> QED
  BY <1>7, <1>8 DEF s

LEMMA EndedSqueezed ==
  ASSUME NEW s, Ended(s)
  PROVE  s \in Seq(Symbols) /\ Ended(Squeeze(s))
<1> DEFINE n == Len(s)
           z == Squeeze(s)
<1>1. s \in Seq(Symbols) /\ n \in Nat \ {0} /\ s[n] = EOI /\ \A i \in 1..n - 1 : s[i] \in Tokens
  BY DEF Ended, Symbols
<1>2. s[n] # Space
  BY <1>1, TokensDiffer
<1>3. z \in Seq(Symbols \ {Space}) /\ Len(z) = Pos(s, n)
  BY <1>1, Places
<1>4. Pos(s, n) \in 1..Len(z) /\ z[Pos(s, n)] = EOI
  BY <1>1, <1>2, Places
<1>5. ASSUME NEW k \in 1..Len(z) - 1 PROVE z[k] \in Tokens
  <2> HIDE DEF z
  <2>1. k \in 1..Len(z) /\ k # Len(z)
    BY <1>4
  <2>2. PICK i \in 1..n : s[i] # Space /\ Pos(s, i) = k
    BY <1>1, <2>1, Places DEF z
  <2>3. z[k] = s[i] /\ i # n
    BY <1>1, <1>3, <2>1, <2>2, Places DEF z
  <2> QED
    BY <1>1, <2>3
<1>6. z \in Seq(Tokens \union {EOI})
  BY <1>3, WiderSeq DEF Symbols
<1> HIDE DEF z
<1>7. Ended(z)
  BY <1>3, <1>4, <1>5, <1>6 DEF Ended
<1> QED
  BY <1>1, <1>7 DEF z

LEMMA SqueezedSkip ==
  ASSUME NEW s, Ended(s), NEW p \in 0..Len(s) - 1
  PROVE  LET j == Skip(s, p + 1) IN
         /\ Pos(s, j) = Pos(s, p) + 1 /\ Pos(s, j) \in 1..Len(Squeeze(s))
         /\ Skip(Squeeze(s), Pos(s, p) + 1) = Pos(s, j)
         /\ Squeeze(s)[Pos(s, j)] = s[j]
<1> DEFINE n == Len(s)
           z == Squeeze(s)
           j == Skip(s, p + 1)
<1>1. s \in Seq(Symbols) /\ Ended(z) /\ n \in Nat
  BY EndedSqueezed DEF Ended
<1>2. p + 1 \in 1..n
  BY <1>1
<1>3. j \in p + 1..n /\ s[j] # Space /\ \A k \in p + 1..j - 1 : s[k] = Space
  BY <1>2, SkipIs
<1> HIDE DEF j
<1>4. j \in 1..n /\ j - 1 \in 0..n /\ p \in 0..n /\ p <= j - 1 /\ j \in 0..n
  BY <1>1, <1>3
<1>5. /\ Pos(s, j) = Pos(s, j - 1) + 1 /\ Pos(s, j) \in 1..Len(z) /\ z[Pos(s, j)] = s[j]
      /\ Pos(s, p) <= Pos(s, j - 1)
      /\ Pos(s, j) \in Nat /\ Pos(s, p) \in Nat /\ Pos(s, j - 1) \in Nat
  BY <1>1, <1>3, <1>4, Places
<1>6. Pos(s, j) = Pos(s, p) + 1
  <2>1. SUFFICES ASSUME Pos(s, p) + 1 < Pos(s, j) PROVE FALSE
    BY <1>5
  <2>2. Pos(s, p) + 1 \in 1..Len(z)
    BY <1>5, <2>1
  <2>3. PICK m \in 1..n : s[m] # Space /\ Pos(s, m) = Pos(s, p) + 1
    BY <1>1, <2>2, Places
  <2>4. ~(j <= m)
    <3>1. m \in 0..n
      OBVIOUS
    <3>2. j <= m => Pos(s, j) <= Pos(s, m)
      BY <1>1, <1>4, <3>1, Places
    <3> QED
      BY <1>5, <2>1, <2>3, <3>2
  <2>5. ~(m <= p)
    <3>1. m \in 0..n
      OBVIOUS
    <3>2. m <= p => Pos(s, m) <= Pos(s, p)
      BY <1>1, <1>4, <3>1, Places
    <3> QED
      BY <1>5, <2>3, <3>2
  <2>6. m \in p + 1..j - 1
    BY <1>1, <1>4, <2>4, <2>5
  <2> QED
    BY <1>3, <2>3, <2>6
<1>7. z[Pos(s, j)] # Space
  BY <1>3, <1>5
<1>8. Len(z) \in Nat
  BY <1>1 DEF Ended
<1> HIDE DEF z
<1>9. Skip(z, Pos(s, j)) = Pos(s, j)
  BY <1>5, <1>7, <1>8, SkipNone
<1> QED
  BY <1>5, <1>6, <1>9 DEF z, j

LEMMA SqueezedArgEnd ==
  ASSUME NEW s, Ended(s), NEW a \in 1..Len(s), s[a] # Space
  PROVE  LET e == ArgEnd(s, a) IN
         /\ ArgEnd(Squeeze(s), Pos(s, a)) = Pos(s, e)
         /\ Pos(s, e) \in 1..Len(Squeeze(s)) /\ Squeeze(s)[Pos(s, e)] = s[e]
<1> DEFINE n == Len(s)
           z == Squeeze(s)
           e == ArgEnd(s, a)
<1>1. s \in Seq(Symbols) /\ Ended(z) /\ n \in Nat /\ Len(z) \in Nat
  BY EndedSqueezed DEF Ended
<1>2. e \in a..n /\ s[e] \notin Blank /\ \A k \in a..e - 1 : s[k] \in Blank
  BY ArgEndIs
<1> HIDE DEF e
<1>3. e \in 1..n /\ e \in 0..n /\ a \in 0..n /\ a <= e /\ s[e] # Space
  BY <1>1, <1>2 DEF Blank
<1>4. /\ Pos(s, e) \in 1..Len(z) /\ z[Pos(s, e)] = s[e]
      /\ Pos(s, a) \in 1..Len(z) /\ Pos(s, a) <= Pos(s, e)
  BY <1>1, <1>3, Places
<1>5. ASSUME NEW k \in Pos(s, a)..Pos(s, e) - 1 PROVE z[k] \in Blank
  <2>1. k \in 1..Len(z) /\ Pos(s, a) <= k /\ k < Pos(s, e)
    BY <1>1, <1>4
  <2>2. PICK m \in 1..n : s[m] # Space /\ Pos(s, m) = k
    BY <1>1, <2>1, Places
  <2>3. m \in 0..n /\ z[k] = s[m]
    BY <1>1, <2>2, Places
  <2>4. ~(e <= m)
    <3>1. e <= m => Pos(s, e) <= Pos(s, m)
      BY <1>1, <1>3, <2>3, Places
    <3> QED
      BY <1>4, <2>1, <2>2, <3>1
  <2>5. ~(m < a)
    <3>1. m < a => Pos(s, m) < Pos(s, a)
      BY <1>1, <2>3, Behind
    <3> QED
      BY <1>4, <2>1, <2>2, <3>1
  <2>6. m \in a..e - 1
    BY <1>1, <1>3, <2>4, <2>5
  <2> QED
    BY <1>2, <2>3, <2>6
<1> HIDE DEF z
<1>6. IsPast(z, Pos(s, a), Blank, Pos(s, e))
  <2>1. Pos(s, e) \in Pos(s, a)..Len(z)
    BY <1>1, <1>4
  <2> QED
    BY <1>2, <1>4, <1>5, <2>1 DEF IsPast
<1>7. ArgEnd(z, Pos(s, a)) = Pos(s, e)
  BY <1>1, <1>4, <1>6, PastUnique DEF ArgEnd, Blank
<1> QED
  BY <1>4, <1>7 DEF z, e

LEMMA LongerSubSeq ==
  ASSUME NEW S, NEW z \in Seq(S), NEW b \in 1..Len(z), NEW m \in Nat,
         b <= m + 1, m + 1 \in 1..Len(z)
  PROVE  SubSeq(z, b, m + 1) = Append(SubSeq(z, b, m), z[m + 1])
<1> DEFINE u == SubSeq(z, b, m)
           w == SubSeq(z, b, m + 1)
<1>1. u \in Seq(S) /\ Len(u) = m + 1 - b /\ \A k \in 1..m + 1 - b : u[k] = z[b + k - 1]
  OBVIOUS
<1>2. w \in Seq(S) /\ Len(w) = m + 2 - b /\ \A k \in 1..m + 2 - b : w[k] = z[b + k - 1]
  OBVIOUS
<1> HIDE DEF u, w
<1>3. z[m + 1] \in S
  OBVIOUS
<1>4. /\ Append(u, z[m + 1]) \in Seq(S) /\ Len(Append(u, z[m + 1])) = m + 2 - b
      /\ \A k \in 1..m + 1 - b : Append(u, z[m + 1])[k] = u[k]
      /\ Append(u, z[m + 1])[m + 2 - b] = z[m + 1]
  BY <1>1, <1>3
<1>5. ASSUME NEW k \in 1..m + 2 - b PROVE Append(u, z[m + 1])[k] = w[k]
  <2>1. CASE k = m + 2 - b
    <3>1. w[k] = z[m + 1]
      <4>1. b + k - 1 = m + 1
        BY <2>1
      <4> QED
        BY <1>2, <4>1
    <3> QED
      BY <1>4, <2>1, <3>1
  <2>2. CASE k # m + 2 - b
    <3>1. k \in 1..m + 1 - b
      BY <2>2
    <3> QED
      BY <1>1, <1>2, <1>4, <3>1
  <2> QED
    BY <2>1, <2>2
<1> DEFINE x == Append(u, z[m + 1])
<1>6. x = [k \in 1..m + 2 - b |-> x[k]] /\ w = [k \in 1..m + 2 - b |-> w[k]]
  <2> HIDE DEF x
  <2> QED
    BY <1>2, <1>4 DEF x
<1> QED
  BY <1>5, <1>6 DEF u, w

\* An argument of the squeezed text is the argument, squeezed.
LEMMA SqueezedValue ==
  ASSUME NEW s, Ended(s), NEW a \in 1..Len(s), NEW e \in a..Len(s), s[a] # Space, s[e] # Space
  PROVE  Squeeze(SubSeq(s, a, e - 1)) = SubSeq(Squeeze(s), Pos(s, a), Pos(s, e) - 1)
<1> DEFINE n == Len(s)
           z == Squeeze(s)
           v == SubSeq(s, a, e - 1)
           K == {k \in Nat : k <= e - a =>
                    Squeezed(v)[k] = SubSeq(z, Pos(s, a), Pos(s, a + k - 1))}
<1>1. s \in Seq(Symbols) /\ Ended(z) /\ n \in Nat /\ Len(z) \in Nat
  BY EndedSqueezed DEF Ended
<1>2. z \in Seq(Symbols) /\ Pos(s, a) \in 1..Len(z) /\ Pos(s, a) = Pos(s, a - 1) + 1
  <2>1. z \in Seq(Symbols \ {Space})
    BY <1>1, Places
  <2>2. z \in Seq(Symbols)
    BY <2>1, WiderSeq
  <2> QED
    BY <1>1, <2>2, Places
<1>3. v \in Seq(Symbols) /\ Len(v) = e - a /\ \A k \in 1..e - a : v[k] = s[a + k - 1]
  BY <1>1
<1> HIDE DEF z, v
<1>4. ASSUME NEW k \in Nat, \A m \in 0..k - 1 : m \in K PROVE k \in K
  <2>1. SUFFICES ASSUME k <= e - a
                 PROVE  Squeezed(v)[k] = SubSeq(z, Pos(s, a), Pos(s, a + k - 1))
    OBVIOUS
  <2>2. CASE k = 0
    <3>1. Squeezed(v)[k] = <<>>
      BY <1>3, <2>2, SqueezedStep
    <3>2. a + k - 1 = a - 1 /\ a - 1 \in 0..n
      BY <1>1, <2>2
    <3>3. Pos(s, a - 1) < Pos(s, a) /\ Pos(s, a - 1) \in Nat
      <4>1. Pos(s, a - 1) \in Nat
        BY <1>1, <3>2, Places
      <4> QED
        BY <1>2, <4>1
    <3>4. SubSeq(z, Pos(s, a), Pos(s, a - 1)) = <<>>
      BY <1>2, <3>3
    <3> QED
      BY <3>1, <3>2, <3>4
  <2>3. CASE k # 0
    <3> DEFINE c == a + k - 1
    <3>1. k - 1 \in 0..k - 1 /\ k - 1 <= e - a /\ k \in 1..Len(v) /\ c \in 1..n /\ c - 1 \in 0..n
          /\ a + (k - 1) - 1 = c - 1 /\ a - 1 \in 0..n /\ a - 1 <= c - 1
      BY <1>1, <1>3, <2>1, <2>3
    <3>2. Squeezed(v)[k - 1] = SubSeq(z, Pos(s, a), Pos(s, c - 1))
      BY <1>4, <3>1
    <3>3. v[k] = s[c]
      BY <1>3, <3>1
    <3>4. Squeezed(v)[k] = IF s[c] = Space THEN Squeezed(v)[k - 1]
                           ELSE Append(Squeezed(v)[k - 1], s[c])
      BY <1>3, <3>1, <3>3, SqueezedStep
    <3> HIDE DEF c
    <3>5. CASE s[c] = Space
      <4>1. Pos(s, c) = Pos(s, c - 1)
        BY <1>1, <3>1, <3>5, Places
      <4> QED
        BY <3>2, <3>4, <3>5, <4>1 DEF c
    <3>6. CASE s[c] # Space
      <4> DEFINE m == Pos(s, c - 1)
      <4>1. Pos(s, c) = m + 1 /\ m + 1 \in 1..Len(z) /\ z[m + 1] = s[c]
        BY <1>1, <3>1, <3>6, Places DEF z
      <4>2. m \in Nat /\ Pos(s, a) <= m + 1
        <5>1. Pos(s, a - 1) <= m /\ m \in Nat /\ Pos(s, a - 1) \in Nat
          BY <1>1, <3>1, Places
        <5> QED
          BY <1>2, <5>1
      <4> HIDE DEF m
      <4>3. SubSeq(z, Pos(s, a), m + 1) = Append(SubSeq(z, Pos(s, a), m), z[m + 1])
        BY <1>2, <4>1, <4>2, LongerSubSeq
      <4> QED
        BY <3>2, <3>4, <3>6, <4>1, <4>3 DEF c, m
    <3> QED
      BY <3>5, <3>6
  <2> QED
    BY <2>2, <2>3
<1>5. \A k \in Nat : k \in K
  <2> HIDE DEF K
  <2> QED
    BY <1>4, StrongInduction
<1>6. Squeezed(v)[e - a] = SubSeq(z, Pos(s, a), Pos(s, a + (e - a) - 1))
  <2>1. e - a \in Nat /\ e - a <= e - a
    BY <1>1
  <2> QED
    BY <1>5, <2>1
<1>7. a + (e - a) - 1 = e - 1 /\ e \in 1..n
  BY <1>1
<1>8. Pos(s, e - 1) = Pos(s, e) - 1
  <2>1. Pos(s, e) = Pos(s, e - 1) + 1 /\ e - 1 \in 0..n
    BY <1>1, <1>7, Places
  <2>2. Pos(s, e - 1) \in Nat
    BY <1>1, <2>1, Places
  <2> QED
    BY <2>1, <2>2
<1> QED
  BY <1>3, <1>6, <1>7, <1>8 DEF Squeeze, z, v

WithoutSpaces(v) == IF v = NoValue THEN NoValue ELSE Squeeze(v)

\* An option of the squeezed text is the option, its value squeezed.
LEMMA SqueezedOption ==
  ASSUME NEW s, Ended(s), NEW i \in 1..Len(s), s[i] \in Names
  PROVE  LET o == OptionAt(s, i) IN
         OptionAt(Squeeze(s), Pos(s, i)) = Parsed(o.name, WithoutSpaces(o.value), Pos(s, o.next))
<1> DEFINE n     == Len(s)
           z     == Squeeze(s)
           eq    == Skip(s, i + 1)
           arg   == Skip(s, eq + 1)
           end   == ArgEnd(s, arg)
           qarg  == Skip(s, arg + 1)
           qend  == ArgEnd(s, qarg)
           eqz   == Skip(z, Pos(s, i) + 1)
           argz  == Skip(z, eqz + 1)
           endz  == ArgEnd(z, argz)
           qargz == Skip(z, argz + 1)
           qendz == ArgEnd(z, qargz)
           o     == OptionAt(s, i)
           oz    == OptionAt(z, Pos(s, i))
<1>1. /\ n \in Nat /\ \A j \in 1..n : s[j] # EOI => j \in 0..n - 1 /\ j + 1 \in 1..n
      /\ s \in Seq(Symbols)
  <2>1. n \in Nat /\ s \in Seq(Symbols)
    BY EndedSqueezed DEF Ended
  <2>2. ASSUME NEW j \in 1..n, s[j] # EOI PROVE j \in 0..n - 1 /\ j + 1 \in 1..n
    <3>1. j + 1 \in 1..n
      BY <2>2, Further
    <3> QED
      BY <2>1, <3>1
  <2> QED
    BY <2>1, <2>2
<1>2. i \in 0..n - 1 /\ i + 1 \in 1..n /\ s[i] # Space
  <2>1. s[i] # EOI /\ s[i] # Space
    BY TokensDiffer, OptionsAssumption
  <2> QED
    BY <1>1, <2>1
<1>3. z[Pos(s, i)] = s[i]
  BY <1>1, <1>2, Places
<1>4. eqz = Pos(s, eq) /\ z[eqz] = s[eq] /\ eq \in 1..n
  <2>1. eqz = Pos(s, eq) /\ z[eqz] = s[eq]
    BY <1>2, SqueezedSkip
  <2>2. eq \in i + 1..n
    BY <1>2, SkipIs
  <2> QED
    BY <1>1, <2>1, <2>2
<1>5. CASE s[eq] # Equals
  <2>1. o = Parsed(s[i], NoValue, eq)
    BY <1>5 DEF OptionAt
  <2>2. oz = Parsed(s[i], NoValue, eqz)
    BY <1>3, <1>4, <1>5 DEF OptionAt
  <2> QED
    BY <1>4, <2>1, <2>2 DEF Parsed, WithoutSpaces
<1>6. CASE s[eq] = Equals
  <2> HIDE DEF eq, eqz
  <2>1. eq \in 0..n - 1 /\ eq + 1 \in 1..n
    <3>1. s[eq] # EOI
      BY <1>6, TokensDiffer
    <3> QED
      BY <1>1, <1>4, <3>1
  <2>2. argz = Pos(s, arg) /\ z[argz] = s[arg] /\ arg \in 1..n /\ s[arg] # Space
    <3>1. argz = Pos(s, arg) /\ z[argz] = s[arg]
      BY <1>4, <2>1, SqueezedSkip
    <3>2. arg \in eq + 1..n /\ s[arg] # Space
      BY <2>1, SkipIs
    <3> QED
      BY <1>1, <2>1, <3>1, <3>2
  <2>3. ASSUME s[arg] = Quote
        PROVE  /\ qargz = Pos(s, qarg) /\ qarg \in 1..n /\ s[qarg] # Space
               /\ qendz = Pos(s, qend) /\ z[qendz] = s[qend] /\ qend \in qarg..n
               /\ \A k \in qarg..qend - 1 : s[k] \in Blank
    <3> HIDE DEF arg, argz
    <3>1. arg \in 0..n - 1 /\ arg + 1 \in 1..n
      <4>1. s[arg] # EOI
        BY <2>3, TokensDiffer
      <4> QED
        BY <1>1, <2>2, <4>1
    <3>2. qargz = Pos(s, qarg)
      BY <2>2, <3>1, SqueezedSkip
    <3>3. qarg \in arg + 1..n /\ s[qarg] # Space
      BY <3>1, SkipIs
    <3>4. qarg \in 1..n
      BY <1>1, <3>1, <3>3
    <3> HIDE DEF qarg, qargz
    <3>5. qendz = Pos(s, qend) /\ z[qendz] = s[qend]
      BY <3>2, <3>3, <3>4, SqueezedArgEnd
    <3>6. qend \in qarg..n /\ \A k \in qarg..qend - 1 : s[k] \in Blank
      BY <3>4, ArgEndIs
    <3> QED
      BY <3>2, <3>3, <3>4, <3>5, <3>6
  <2>4. CASE s[arg] = Quote /\ s[qend] = Quote
    <3>1. o = Parsed(s[i], SubSeq(s, qarg, qend - 1), Skip(s, qend + 1))
      BY <1>6, <2>4 DEF OptionAt, eq
    <3>2. oz = Parsed(s[i], SubSeq(z, qargz, qendz - 1), Skip(z, qendz + 1))
      BY <1>3, <1>4, <1>6, <2>2, <2>3, <2>4 DEF OptionAt, eqz
    <3> HIDE DEF arg, argz
    <3>3. /\ qargz = Pos(s, qarg) /\ qarg \in 1..n /\ s[qarg] # Space
          /\ qendz = Pos(s, qend) /\ qend \in qarg..n
          /\ \A k \in qarg..qend - 1 : s[k] \in Blank
      BY <2>3, <2>4
    <3> HIDE DEF qarg, qargz, qend, qendz
    <3>4. s[qend] # Space /\ s[qend] # EOI
      BY <2>4, TokensDiffer
    <3>5. Squeeze(SubSeq(s, qarg, qend - 1)) = SubSeq(z, qargz, qendz - 1)
      BY <3>3, <3>4, SqueezedValue
    <3>6. SubSeq(s, qarg, qend - 1) # NoValue
      <4>1. SubSeq(s, qarg, qend - 1) \in Args
        BY <3>3, ArgIs
      <4> QED
        BY <4>1, ArgsDiffer
    <3>7. Skip(z, qendz + 1) = Pos(s, Skip(s, qend + 1))
      <4>1. qend \in 1..n
        BY <1>1, <3>3
      <4>2. qend \in 0..n - 1
        BY <1>1, <3>4, <4>1
      <4> QED
        BY <3>3, <4>2, SqueezedSkip
    <3>8. /\ o.name = s[i] /\ o.next = Skip(s, qend + 1)
          /\ WithoutSpaces(o.value) = Squeeze(SubSeq(s, qarg, qend - 1))
      BY <3>1, <3>6 DEF Parsed, WithoutSpaces
    <3> HIDE DEF o, oz
    <3>9. oz = Parsed(o.name, WithoutSpaces(o.value), Pos(s, o.next))
      BY <3>2, <3>5, <3>7, <3>8
    <3> QED
      BY <3>9 DEF o, oz
  <2>5. CASE ~(s[arg] = Quote /\ s[qend] = Quote)
    <3>1. o = Parsed(s[i], SubSeq(s, arg, end - 1), end)
      BY <1>6, <2>5 DEF OptionAt, eq
    <3>2. ~(z[argz] = Quote /\ z[qendz] = Quote)
      BY <2>2, <2>3, <2>5
    <3>3. oz = Parsed(s[i], SubSeq(z, argz, endz - 1), endz)
      BY <1>3, <1>4, <1>6, <3>2 DEF OptionAt, eqz
    <3> HIDE DEF arg, argz
    <3>4. endz = Pos(s, end)
      BY <2>2, SqueezedArgEnd
    <3>5. end \in arg..n /\ s[end] \notin Blank /\ \A k \in arg..end - 1 : s[k] \in Blank
      BY <2>2, ArgEndIs
    <3> HIDE DEF end, endz
    <3>6. s[end] # Space
      BY <3>5 DEF Blank
    <3>7. Squeeze(SubSeq(s, arg, end - 1)) = SubSeq(z, argz, endz - 1)
      BY <2>2, <3>4, <3>5, <3>6, SqueezedValue
    <3>8. SubSeq(s, arg, end - 1) # NoValue
      <4>1. SubSeq(s, arg, end - 1) \in Args
        BY <2>2, <3>5, ArgIs
      <4> QED
        BY <4>1, ArgsDiffer
    <3>9. /\ o.name = s[i] /\ o.next = end
          /\ WithoutSpaces(o.value) = Squeeze(SubSeq(s, arg, end - 1))
      BY <3>1, <3>8 DEF Parsed, WithoutSpaces
    <3> HIDE DEF o, oz
    <3>10. oz = Parsed(o.name, WithoutSpaces(o.value), Pos(s, o.next))
      BY <3>3, <3>4, <3>7, <3>9
    <3> QED
      BY <3>10 DEF o, oz
  <2> QED
    BY <2>4, <2>5
<1> QED
  BY <1>5, <1>6

\* The options of a list, their values squeezed.
AreSqueezed(list, squeezed) ==
    /\ list \in Seq(Option) /\ squeezed \in Seq(Option) /\ Len(squeezed) = Len(list)
    /\ \A k \in 1..Len(list) :
          /\ squeezed[k].name = list[k].name
          /\ squeezed[k].value = WithoutSpaces(list[k].value)

LEMMA MoreSqueezed ==
  ASSUME NEW o \in Option, NEW oz \in Option, oz.name = o.name,
         oz.value = WithoutSpaces(o.value), NEW l, NEW lz, AreSqueezed(l, lz)
  PROVE  AreSqueezed(<<o>> \o l, <<oz>> \o lz)
<1> DEFINE m == <<o>> \o l
           mz == <<oz>> \o lz
<1>1. l \in Seq(Option) /\ lz \in Seq(Option) /\ Len(lz) = Len(l) /\ Len(l) \in Nat
  BY DEF AreSqueezed
<1>2. <<o>> \in Seq(Option) /\ Len(<<o>>) = 1 /\ <<o>>[1] = o
      /\ <<oz>> \in Seq(Option) /\ Len(<<oz>>) = 1 /\ <<oz>>[1] = oz
  OBVIOUS
<1>3. /\ m \in Seq(Option) /\ Len(m) = Len(l) + 1 /\ m[1] = o
      /\ \A k \in 1..Len(l) : m[1 + k] = l[k]
  BY <1>1, <1>2
<1>4. /\ mz \in Seq(Option) /\ Len(mz) = Len(l) + 1 /\ mz[1] = oz
      /\ \A k \in 1..Len(l) : mz[1 + k] = lz[k]
  BY <1>1, <1>2
<1> HIDE DEF m, mz
<1>5. ASSUME NEW k \in 1..Len(m)
      PROVE  mz[k].name = m[k].name /\ mz[k].value = WithoutSpaces(m[k].value)
  <2>1. CASE k = 1
    BY <1>3, <1>4, <2>1
  <2>2. CASE k # 1
    <3>1. k - 1 \in 1..Len(l) /\ 1 + (k - 1) = k
      BY <1>1, <1>3, <2>2
    <3>2. m[k] = l[k - 1] /\ mz[k] = lz[k - 1]
      BY <1>3, <1>4, <3>1
    <3> QED
      BY <3>1, <3>2 DEF AreSqueezed
  <2> QED
    BY <2>1, <2>2
<1>6. AreSqueezed(m, mz)
  BY <1>3, <1>4, <1>5 DEF AreSqueezed
<1> QED
  BY <1>6 DEF m, mz

LEMMA SqueezedList ==
  ASSUME NEW s, Ended(s)
  PROVE  \A i \in 1..Len(s) : List(s)[i] # Failure =>
            s[i] \in Names /\ AreSqueezed(List(s)[i], List(Squeeze(s))[Pos(s, i)])
<1> DEFINE n == Len(s)
           z == Squeeze(s)
           Q(i) == List(s)[i] # Failure =>
                      s[i] \in Names /\ AreSqueezed(List(s)[i], List(z)[Pos(s, i)])
           S == {i \in 1..n : Q(i)}
<1>1. n \in Nat /\ s \in Seq(Symbols) /\ Ended(z)
  BY EndedSqueezed DEF Ended
<1>2. ASSUME NEW i \in 1..n, \A j \in i + 1..n : j \in S PROVE i \in S
  <2>1. SUFFICES ASSUME List(s)[i] # Failure
                 PROVE  s[i] \in Names /\ AreSqueezed(List(s)[i], List(z)[Pos(s, i)])
    OBVIOUS
  <2> DEFINE o == OptionAt(s, i)
             p == Pos(s, i)
             oz == OptionAt(z, p)
  <2>2. List(s)[i] = ListBody(s, List(s), i)
    BY ListDef
  <2>3. s[i] \in Names /\ (s[o.next] = EOI \/ s[o.next] = Comma)
    BY <2>1, <2>2 DEF ListBody
  <2>4. s[i] # Space
    BY <2>3, TokensDiffer
  <2>5. p \in 1..Len(z) /\ z[p] = s[i]
    BY <1>1, <2>4, Places
  <2>6. oz = Parsed(o.name, WithoutSpaces(o.value), Pos(s, o.next))
    BY <2>3, SqueezedOption
  <2>7. oz.name = o.name /\ oz.value = WithoutSpaces(o.value) /\ oz.next = Pos(s, o.next)
    BY <2>6 DEF Parsed
  <2>8. o \in Option /\ oz \in Option
    BY <1>1, <2>3, <2>5, OptionAtType
  <2>9. o.next \in 1..n /\ z[oz.next] = s[o.next]
    <3>1. o.next \in i + 1..n /\ s[o.next] # Space
      BY <2>3, OptionAtIs
    <3>2. o.next \in 1..n
      BY <1>1, <3>1, Later
    <3> QED
      BY <1>1, <2>7, <3>1, <3>2, Places
  <2>10. List(z)[p] = ListBody(z, List(z), p)
    BY <1>1, <2>5, ListDef
  <2>11. CASE s[o.next] = EOI
    <3>1. List(s)[i] = <<o>>
      BY <2>2, <2>3, <2>11 DEF ListBody
    <3>2. List(z)[p] = <<oz>>
      BY <2>3, <2>5, <2>9, <2>10, <2>11 DEF ListBody
    <3>3. AreSqueezed(<<o>>, <<oz>>)
      <4> HIDE DEF o, oz
      <4>1. <<o>> \in Seq(Option) /\ Len(<<o>>) = 1 /\ <<o>>[1] = o
            /\ <<oz>> \in Seq(Option) /\ Len(<<oz>>) = 1 /\ <<oz>>[1] = oz
        BY <2>8
      <4> QED
        BY <2>7, <4>1 DEF AreSqueezed
    <3> QED
      BY <2>3, <3>1, <3>2, <3>3
  <2>12. CASE s[o.next] = Comma
    <3> DEFINE q == Skip(s, o.next + 1)
               qz == Skip(z, oz.next + 1)
    <3>1. List(s)[i] = Followed(o, List(s)[q])
      BY <2>2, <2>3, <2>12, TokensDiffer DEF ListBody
    <3>2. List(z)[p] = Followed(oz, List(z)[qz])
      BY <2>3, <2>5, <2>9, <2>10, <2>12, TokensDiffer DEF ListBody
    <3>3. qz = Pos(s, q)
      <4>1. o.next + 1 \in 1..n
        BY <2>3, <2>12, NextOption
      <4> DEFINE e == o.next
      <4>2. e \in 0..n - 1
        <5>1. e + 1 \in 1..n /\ e \in 1..n
          BY <2>9, <4>1
        <5> HIDE DEF e
        <5> QED
          BY <1>1, <5>1
      <4>3. Skip(z, Pos(s, e) + 1) = Pos(s, Skip(s, e + 1))
        <5> HIDE DEF e
        <5> QED
          BY <4>2, SqueezedSkip
      <4> QED
        BY <2>7, <4>3
    <3>4. q \in S
      <4>1. q \in i + 1..n
        BY <2>3, <2>12, NextOption
      <4> QED
        BY <1>2, <4>1
    <3>5. List(s)[q] # Failure /\ List(s)[i] = <<o>> \o List(s)[q]
      BY <2>1, <3>1 DEF Followed
    <3>6. AreSqueezed(List(s)[q], List(z)[qz])
      BY <3>3, <3>4, <3>5
    <3>7. List(z)[qz] # Failure
      BY <3>6, FailureIsNone DEF AreSqueezed
    <3>8. List(z)[p] = <<oz>> \o List(z)[qz]
      BY <3>2, <3>7 DEF Followed
    <3>9. AreSqueezed(<<o>> \o List(s)[q], <<oz>> \o List(z)[qz])
      <4> HIDE DEF o, oz, q, qz
      <4> QED
        BY <2>7, <2>8, <3>6, MoreSqueezed
    <3> QED
      BY <2>3, <3>5, <3>8, <3>9
  <2> QED
    BY <2>3, <2>11, <2>12
<1> HIDE DEF S
<1>3. \A i \in 1..n : i \in S
  BY <1>1, <1>2, Downward
<1> QED
  BY <1>3 DEF S

\* What is understood at all is understood as without spaces.
LEMMA SqueezedParse ==
  ASSUME NEW t \in Seq(Tokens), Parse(t) # Failure
  PROVE  AreSqueezed(Parse(t), Parse(Squeeze(t)))
<1> DEFINE s == Append(t, EOI)
           z == Squeeze(s)
           j == Skip(s, 1)
<1>1. Ended(s) /\ 1 \in 1..Len(s) /\ Len(s) \in Nat
  <2>1. Ended(s)
    BY EndedText
  <2> HIDE DEF s
  <2> QED
    BY <2>1 DEF Ended
<1>2. z = Append(Squeeze(t), EOI)
  BY SqueezedText
<1>3. Parse(t) = (IF s[j] = EOI THEN <<>> ELSE List(s)[j])
  BY DEF Parse
<1>4. Parse(Squeeze(t)) = (IF z[Skip(z, 1)] = EOI THEN <<>> ELSE List(z)[Skip(z, 1)])
  BY <1>2 DEF Parse
<1> HIDE DEF s, z
<1>5. Skip(z, 1) = Pos(s, j) /\ z[Pos(s, j)] = s[j] /\ j \in 1..Len(s)
  <2>1. 0 \in 0..Len(s) - 1 /\ 0 + 1 = 1
    BY <1>1
  <2>2. s \in Seq(Symbols)
    BY <1>1, EndedSqueezed
  <2>3. Pos(s, 0) = 0
    BY <2>2, Places
  <2>4. ASSUME NEW p \in 0..Len(s) - 1
        PROVE  /\ Skip(z, Pos(s, p) + 1) = Pos(s, Skip(s, p + 1))
               /\ z[Pos(s, Skip(s, p + 1))] = s[Skip(s, p + 1)]
    BY <1>1, SqueezedSkip DEF z
  <2>5. j \in 1..Len(s)
    BY <1>1, SkipIs
  <2> QED
    BY <2>1, <2>3, <2>4, <2>5
<1>6. CASE s[j] = EOI
  <2>1. Parse(t) = <<>> /\ Parse(Squeeze(t)) = <<>>
    BY <1>3, <1>4, <1>5, <1>6
  <2> QED
    BY <2>1 DEF AreSqueezed
<1>7. CASE s[j] # EOI
  <2>1. Parse(t) = List(s)[j] /\ Parse(Squeeze(t)) = List(z)[Pos(s, j)]
    BY <1>3, <1>4, <1>5, <1>7
  <2> HIDE DEF j
  <2> QED
    BY <1>1, <1>5, <2>1, SqueezedList DEF z
<1> QED
  BY <1>6, <1>7

LEMMA SqueezedWord ==
  ASSUME NEW w \in Words
  PROVE  Squeeze(<<w>>) = <<w>>
<1> DEFINE v == <<w>>
<1>1. v \in Seq(Symbols) /\ Len(v) = 1 /\ v[1] = w /\ w # Space
  <2>1. w \in Symbols /\ w # Space
    BY TokensDiffer DEF Symbols, Tokens
  <2> QED
    BY <2>1
<1> HIDE DEF v
<1>2. ASSUME NEW i \in 1..Len(v), v[i] # Space
      PROVE  Squeezed(v)[i] = Append(Squeezed(v)[i - 1], v[i])
  BY <1>1, <1>2, SqueezedStep
<1>3. 1 \in 1..Len(v) /\ 1 - 1 = 0 /\ Squeezed(v)[0] = <<>>
  BY <1>1, SqueezedStep
<1>4. Squeezed(v)[1] = Append(<<>>, w)
  BY <1>1, <1>2, <1>3
<1> QED
  BY <1>1, <1>4 DEF Squeeze, v

\* The value of a valid option, and that of the option of the squeezed text.
LEMMA SqueezedOptionValue ==
  ASSUME NEW o \in Option, NEW oz \in Option, Value(o) # Panic,
         oz.name = o.name, oz.value = WithoutSpaces(o.value)
  PROVE  /\ o.name \in Flags => Value(oz) = Value(o)
         /\ o.name = "phasicj_exec" =>
               /\ Value(o) # NoValue /\ Value(oz) = Squeeze(Value(o))
<1>1. ASSUME o.name \in Flags PROVE Value(oz) = Value(o)
  <2>1. Value(o) = Eval(o.value) /\ o.name # "phasicj_exec"
    BY <1>1, ValidOption DEF Flags
  <2>2. Value(oz) = Eval(oz.value)
    BY <1>1, <2>1 DEF Value
  <2>3. o.value = NoValue \/ o.value = <<"true">> \/ o.value = <<"false">>
    BY <2>1 DEF Eval
  <2>4. "true" \in Words /\ "false" \in Words
    BY OptionsAssumption
  <2>5. Squeeze(<<"true">>) = <<"true">> /\ Squeeze(<<"false">>) = <<"false">>
    BY <2>4, SqueezedWord
  <2>6. oz.value = o.value
    BY <2>3, <2>5 DEF WithoutSpaces
  <2> QED
    BY <2>1, <2>2, <2>6
<1>2. ASSUME o.name = "phasicj_exec"
      PROVE  Value(o) # NoValue /\ Value(oz) = Squeeze(Value(o))
  <2> DEFINE v == o.value
  <2>1. Value(o) = v /\ v \in Args \ {<<>>} /\ v[1] \in Words
    BY <1>2, ValidOption
  <2>2. v # NoValue /\ oz.value = Squeeze(v)
    BY <2>1, ArgsDiffer DEF WithoutSpaces
  <2> HIDE DEF v
  <2>3. v \in Seq(Symbols) /\ Squeeze(v) \in Args
    <3>1. Words \union {Space} \subseteq Symbols
      BY DEF Symbols, Tokens
    <3>2. v \in Seq(Words \union {Space})
      BY <2>1 DEF Args
    <3> QED
      BY <3>1, <3>2, SqueezeType, WiderSeq DEF Args
  <2>4. Squeeze(v) # <<>>
    <3>1. 1 \in 1..Len(v) /\ v[1] # Space
      BY <2>1, <2>3, TokensDiffer
    <3>2. Pos(v, 1) \in 1..Len(Squeeze(v))
      BY <2>3, <3>1, Places
    <3> QED
      BY <3>2
  <2>5. Value(oz) = Path(oz.value)
    <3>1. "phasicj_exec" \notin Flags
      BY DEF Flags
    <3> QED
      BY <1>2, <3>1 DEF Value
  <2>6. Path(Squeeze(v)) = Squeeze(v)
    BY <2>3, <2>4, ArgsDiffer DEF Path
  <2> QED
    BY <2>1, <2>2, <2>5, <2>6
<1> QED
  BY <1>1, <1>2

\* Whatever text Agent_OnLoad is given and however long it is, spaces give it no
\* other meaning than it has without them, but for those in the name of the program.
THEOREM SpacesAreIgnored == Spec => []SpacesHaveNoMeaning
<1>1. Inv => SpacesHaveNoMeaning
  <2> DEFINE l == Parse(text)
             lz == Parse(Squeeze(text))
             exec == conf["phasicj_exec"]
  <2>1. SUFFICES ASSUME Inv, status = "done"
                 PROVE  /\ \A f \in Flags : conf[f] = Effect(lz)[f]
                        /\ Effect(lz)["phasicj_exec"] =
                              IF exec = NoValue THEN NoValue ELSE Squeeze(exec)
    BY DEF SpacesHaveNoMeaning
  <2>2. PICK k \in Nat : Applied(k)
    BY <2>1 DEF Inv
  <2>3. l \in Seq(Option) /\ l # Failure /\ text \in Seq(Tokens)
    BY <2>1, <2>2, FailureIsNone DEF Applied, Inv
  <2>4. AreSqueezed(l, lz)
    BY <2>3, SqueezedParse
  <2> HIDE DEF l, lz
  <2>5. Len(l) \in Nat /\ Len(lz) = Len(l) /\ \A i \in 1..Len(l) : l[i].name = lz[i].name
    BY <2>3, <2>4 DEF AreSqueezed
  <2>6. k = Len(l) /\ conf = Effect(l) /\ \A i \in 1..Len(l) : Value(l[i]) # Panic
    <3>1. /\ Len(todo) = Len(l) - k /\ conf = Upto(l, k)
          /\ \A i \in 1..k : Value(l[i]) # Panic
      BY <2>2 DEF Applied, l
    <3>2. todo = <<>>
      BY <2>1 DEF Inv
    <3>3. k = Len(l)
      <4>1. Len(todo) = 0
        BY <3>2
      <4> QED
        BY <2>5, <3>1, <4>1
    <3> QED
      BY <3>1, <3>3, EffectIsUpto
  <2>7. ASSUME NEW i \in 1..Len(l)
        PROVE  /\ l[i].name \in Flags => Value(lz[i]) = Value(l[i])
               /\ l[i].name = "phasicj_exec" =>
                     Value(l[i]) # NoValue /\ Value(lz[i]) = Squeeze(Value(l[i]))
    <3>1. l[i] \in Option /\ lz[i] \in Option
      <4>1. l \in Seq(Option) /\ lz \in Seq(Option) /\ i \in 1..Len(lz)
        BY <2>4, <2>5 DEF AreSqueezed
      <4> QED
        BY <4>1
    <3>2. lz[i].name = l[i].name /\ lz[i].value = WithoutSpaces(l[i].value)
      BY <2>4 DEF AreSqueezed
    <3>3. Value(l[i]) # Panic
      BY <2>6
    <3> QED
      BY <3>1, <3>2, <3>3, SqueezedOptionValue
  <2>8. ASSUME NEW name \in Options
        PROVE  \/ conf[name] = Defaults[name] /\ Effect(lz)[name] = Defaults[name]
               \/ \E i \in 1..Len(l) :
                     /\ l[i].name = name
                     /\ conf[name] = Value(l[i]) /\ Effect(lz)[name] = Value(lz[i])
    BY <2>5, <2>6, EffectOfBoth
  <2>9. ASSUME NEW f \in Flags PROVE conf[f] = Effect(lz)[f]
    <3>1. f \in Options
      BY DEF Options
    <3> QED
      BY <2>7, <2>8, <3>1
  <2>10. Effect(lz)["phasicj_exec"] = IF exec = NoValue THEN NoValue ELSE Squeeze(exec)
    <3>1. "phasicj_exec" \in Options /\ Defaults["phasicj_exec"] = NoValue
      BY DefaultsAre DEF Options
    <3> QED
      BY <2>7, <2>8, <3>1
  <2> QED
    BY <2>9, <2>10
<1> QED
  BY <1>1, Invariant, PTL
=============================================================================
