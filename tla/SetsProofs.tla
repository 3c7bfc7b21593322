----------------------------- MODULE SetsProofs -----------------------------
(***************************************************************************)
(* That the sets of the generated code are the sets of Pascal, for every   *)
(* width of a word, every range and every number of words.  The array of a *)
(* clean variable is Encode of the set it stands for; each operator of     *)
(* SetWords is shown to take encoded sets to encoded sets.                 *)
(***************************************************************************)
EXTENDS Sets, TLAPS

-----------------------------------------------------------------------------
(* Offsets, words and bits.                                                *)

LEMMA Width == SetBits \in Nat \ {0} /\ Bits = 0 .. SetBits - 1
  BY SetWordsAssumption DEF Bits

LEMMA Division ==
  ASSUME NEW o \in Nat
  PROVE  \E q \in Nat, m \in Bits :
           o = q * SetBits + m /\ o \div SetBits = q /\ o % SetBits = m
  <1>1. PICK q : q = o \div SetBits
    OBVIOUS
  <1>2. PICK m : m = o % SetBits
    OBVIOUS
  <1>3. m \in Int /\ m \in Bits
    BY <1>2, Width
  <1>4. q \in Int /\ q >= 0
    BY <1>1, Width
  <1>5. o = q * SetBits + m
    BY <1>1, <1>2, <1>3, <1>4, Width
  <1>6. q \in Nat
    BY <1>4
  <1>7. QED  BY <1>1, <1>2, <1>3, <1>5, <1>6, Zenon

(* A bit has one word and one place in it.                                 *)
LEMMA OneBit ==
  ASSUME NEW i \in Int, NEW j \in Int, NEW b \in Bits, NEW c \in Bits,
         i * SetBits + b = j * SetBits + c
  PROVE  i = j /\ b = c
  <1>1. SetBits \in Nat /\ b \in 0 .. SetBits - 1 /\ c \in 0 .. SetBits - 1
    BY Width
  <1>2. PICK d \in Int : d = i - j
    OBVIOUS
  <1>3. d * SetBits = c - b
    BY <1>1, <1>2
  <1>4. ~(d >= 1)
    <2>1. d >= 1 => d * SetBits >= SetBits
      BY <1>1, <1>2
    <2>2. QED  BY <1>1, <1>3, <2>1
  <1>5. ~(d <= -1)
    <2>1. d <= -1 => d * SetBits <= -SetBits
      BY <1>1, <1>2
    <2>2. QED  BY <1>1, <1>3, <2>1
  <1>6. d = 0
    BY <1>2, <1>4, <1>5
  <1>7. QED  BY <1>1, <1>2, <1>3, <1>6

LEMMA Offset ==
  ASSUME NEW i \in Nat, NEW b \in Bits
  PROVE  /\ i * SetBits + b \in Nat
         /\ (i * SetBits + b) \div SetBits = i
         /\ (i * SetBits + b) % SetBits = b
  <1>1. SetBits \in Nat /\ b \in Nat
    BY Width
  <1>2. PICK o : o = i * SetBits + b
    OBVIOUS
  <1>3. o \in Nat
    BY <1>1, <1>2
  <1>4. PICK q \in Nat, m \in Bits :
          o = q * SetBits + m /\ o \div SetBits = q /\ o % SetBits = m
    BY <1>3, Division
  <1>5. i = q /\ b = m
    BY <1>2, <1>4, OneBit
  <1>6. QED  BY <1>2, <1>3, <1>4, <1>5, Zenon

(* There are words enough, and none too many.                              *)
LEMMA WordsCover ==
  ASSUME NEW r, Size(r) \in Nat, Size(r) >= 1
  PROVE  /\ SetWords(r) \in Nat \ {0}
         /\ Size(r) <= SetWords(r) * SetBits
         /\ (SetWords(r) - 1) * SetBits < Size(r)
  <1>1. PICK o : o = Size(r) + SetBits - 1
    OBVIOUS
  <1>2. o \in Nat /\ SetWords(r) = o \div SetBits
    BY <1>1, Width DEF SetWords
  <1>3. PICK q \in Nat, m \in Bits :
          o = q * SetBits + m /\ o \div SetBits = q /\ o % SetBits = m
    BY <1>2, Division
  <1>4. SetWords(r) = q
    BY <1>2, <1>3, Zenon
  <1>5. Size(r) + SetBits - 1 = q * SetBits + m /\ m \in 0 .. SetBits - 1
    BY <1>1, <1>3, Width
  <1>6. q * SetBits \in Nat /\ (q - 1) * SetBits = q * SetBits - SetBits
    BY Width
  <1>7. Size(r) <= q * SetBits /\ q * SetBits - SetBits < Size(r)
    BY <1>5, <1>6, Width
  <1>8. q # 0
    BY <1>7, Width
  <1>9. QED  BY <1>4, <1>6, <1>7, <1>8, Zenon

RangeOk(r) == r \in [lo : Int, hi : Int] /\ r.lo <= r.hi

LEMMA RangesOk ==
  ASSUME NEW r \in Ranges
  PROVE  RangeOk(r) /\ Size(r) <= MaxSetWords * SetBits
  <1>1. r \in [lo : Int, hi : Int] /\ Size(r) \in 1 .. MaxSetWords * SetBits
    BY SetsAssumption
  <1>2. MaxSetWords * SetBits \in Int
    BY SetWordsAssumption
  <1>3. r.lo \in Int /\ r.hi \in Int /\ Size(r) = r.hi - r.lo + 1
    BY <1>1 DEF Size
  <1>4. r.lo <= r.hi /\ Size(r) <= MaxSetWords * SetBits
    BY <1>1, <1>2, <1>3
  <1>5. QED  BY <1>1, <1>4 DEF RangeOk

LEMMA RangeFacts ==
  ASSUME NEW r, RangeOk(r)
  PROVE  /\ r.lo \in Int /\ r.hi \in Int /\ r.lo <= r.hi
         /\ Size(r) = r.hi - r.lo + 1 /\ Size(r) \in Nat \ {0}
         /\ SetWords(r) \in Nat \ {0}
         /\ Size(r) <= SetWords(r) * SetBits
         /\ (SetWords(r) - 1) * SetBits < Size(r)
         /\ Indexes(r) = 0 .. SetWords(r) - 1
  <1>1. r.lo \in Int /\ r.hi \in Int /\ r.lo <= r.hi
    BY DEF RangeOk
  <1>2. Size(r) = r.hi - r.lo + 1
    BY DEF Size
  <1>3. Size(r) \in Nat /\ Size(r) >= 1
    BY <1>1, <1>2
  <1>4. /\ SetWords(r) \in Nat \ {0}
        /\ Size(r) <= SetWords(r) * SetBits
        /\ (SetWords(r) - 1) * SetBits < Size(r)
    BY <1>3, WordsCover
  <1>5. Indexes(r) = 0 .. SetWords(r) - 1
    BY DEF Indexes
  <1>6. QED  BY <1>1, <1>2, <1>3, <1>4, <1>5

(* Every word holds an element, every element is in a word.                *)
LEMMA IndexInside ==
  ASSUME NEW r, RangeOk(r), NEW i \in Indexes(r)
  PROVE  /\ i \in Nat /\ i * SetBits \in Nat /\ i * SetBits < Size(r)
         /\ r.lo + i * SetBits \in r.lo .. r.hi
  <1>1. PICK n \in Nat \ {0} : n = SetWords(r)
    BY RangeFacts
  <1>2. i \in Nat /\ i <= n - 1 /\ SetBits \in Nat
    BY <1>1, RangeFacts, Width
  <1>3. i * SetBits <= (n - 1) * SetBits /\ (n - 1) * SetBits \in Nat /\ i * SetBits \in Nat
    BY <1>1, <1>2
  <1>4. (n - 1) * SetBits < Size(r)
    BY <1>1, RangeFacts, Zenon
  <1>5. PICK k \in Nat : k = i * SetBits
    BY <1>3
  <1>6. k < Size(r)
    BY <1>3, <1>4, <1>5, RangeFacts
  <1>7. r.lo + k \in r.lo .. r.hi
    BY <1>6, RangeFacts
  <1>8. QED  BY <1>2, <1>3, <1>5, <1>6, <1>7, Zenon

LEMMA ElementIndex ==
  ASSUME NEW r, RangeOk(r), NEW x \in r.lo .. r.hi
  PROVE  \E i \in Indexes(r), b \in Bits :
           /\ x - r.lo = i * SetBits + b
           /\ (x - r.lo) \div SetBits = i
           /\ (x - r.lo) % SetBits = b
  <1>1. PICK o \in Nat : o = x - r.lo
    BY RangeFacts
  <1>2. PICK i \in Nat, b \in Bits :
          o = i * SetBits + b /\ o \div SetBits = i /\ o % SetBits = b
    BY Division
  <1>3. PICK n \in Nat \ {0} : n = SetWords(r)
    BY RangeFacts
  <1>4. o < n * SetBits
    <2>1. o < Size(r)
      BY <1>1, RangeFacts
    <2>2. Size(r) <= n * SetBits
      BY <1>3, RangeFacts, Zenon
    <2>3. QED  BY <1>3, <2>1, <2>2, Width, RangeFacts
  <1>5. i <= n - 1
    <2>1. ~(i >= n)
      <3>1. i >= n => i * SetBits >= n * SetBits
        BY <1>3, Width
      <3>2. i * SetBits <= o
        BY <1>2, Width
      <3>3. QED  BY <1>3, <1>4, <3>1, <3>2, Width
    <2>2. QED  BY <1>3, <2>1
  <1>6. i \in Indexes(r)
    BY <1>3, <1>5, RangeFacts
  <1>7. QED  BY <1>1, <1>2, <1>6, Zenon

-----------------------------------------------------------------------------
(* Encode and Decode.                                                      *)

LEMMA EncodeType ==
  ASSUME NEW r, NEW S
  PROVE  Encode(r, S) \in Layout(r)
  BY DEF Encode, WithOffsets, Layout, Word

LEMMA EncodeBit ==
  ASSUME NEW r, RangeOk(r), NEW S, S \subseteq Int, NEW i \in Indexes(r), NEW b \in Bits
  PROVE  b \in Encode(r, S)[i] <=> r.lo + i * SetBits + b \in S
  <1>1. i * SetBits \in Nat /\ r.lo \in Int /\ b \in Nat
    BY IndexInside, RangeFacts, Width
  <1>2. PICK k \in Nat : k = i * SetBits
    BY <1>1
  <1>3. b \in Encode(r, S)[i] <=> k + b \in {x - r.lo : x \in S}
    BY <1>2 DEF Encode, WithOffsets
  <1>4. k + b \in {x - r.lo : x \in S} <=> r.lo + k + b \in S
    <2>1. ASSUME NEW x \in S, k + b = x - r.lo PROVE r.lo + k + b \in S
      <3>1. x \in Int /\ x = r.lo + k + b
        BY <1>1, <2>1
      <3>2. QED  BY <3>1
    <2>2. ASSUME r.lo + k + b \in S PROVE k + b \in {x - r.lo : x \in S}
      <3>1. PICK x \in S : x = r.lo + k + b
        BY <2>2
      <3>2. k + b = x - r.lo
        BY <1>1, <3>1
      <3>3. QED  BY <3>2
    <2>3. QED  BY <2>1, <2>2
  <1>5. QED  BY <1>2, <1>3, <1>4, Zenon

(* An array is Encode of a set when it has the set's bits.                 *)
LEMMA EncodedBy ==
  ASSUME NEW r, RangeOk(r), NEW S, S \subseteq Int, NEW w \in Layout(r),
         \A i \in Indexes(r), b \in Bits : b \in w[i] <=> r.lo + i * SetBits + b \in S
  PROVE  w = Encode(r, S)
  <1>1. PICK e \in Layout(r) : e = Encode(r, S)
    BY EncodeType
  <1>2. ASSUME NEW i \in Indexes(r) PROVE w[i] = e[i]
    <2>1. w[i] \subseteq Bits /\ e[i] \subseteq Bits
      BY <1>1 DEF Layout, Word
    <2>2. \A b \in Bits : b \in w[i] <=> b \in e[i]
      BY <1>1, EncodeBit
    <2>3. QED  BY <2>1, <2>2
  <1>3. QED  BY <1>1, <1>2 DEF Layout

LEMMA DecodeType ==
  ASSUME NEW r, RangeOk(r), NEW w
  PROVE  Decode(r, w) \subseteq r.lo .. r.hi /\ Decode(r, w) \subseteq Int
  <1>1. Decode(r, w) \subseteq r.lo .. r.hi
    BY DEF Decode
  <1>2. QED  BY <1>1, RangeFacts

LEMMA DecodeEncode ==
  ASSUME NEW r, RangeOk(r), NEW S, S \subseteq r.lo .. r.hi
  PROVE  Decode(r, Encode(r, S)) = S
  <1>0. S \subseteq Int
    BY RangeFacts
  <1>1. PICK e : e = Encode(r, S)
    OBVIOUS
  <1>2. ASSUME NEW x \in r.lo .. r.hi PROVE x \in Decode(r, e) <=> x \in S
    <2>1. PICK i \in Indexes(r), b \in Bits :
            /\ x - r.lo = i * SetBits + b
            /\ (x - r.lo) \div SetBits = i
            /\ (x - r.lo) % SetBits = b
      BY ElementIndex
    <2>2. x \in Decode(r, e) <=> b \in e[i]
      BY <2>1, Zenon DEF Decode
    <2>3. b \in e[i] <=> r.lo + i * SetBits + b \in S
      BY <1>0, <1>1, EncodeBit
    <2>4. r.lo + i * SetBits + b = x
      <3>1. i * SetBits \in Nat /\ r.lo \in Int /\ b \in Nat /\ x \in Int
        BY IndexInside, RangeFacts, Width
      <3>2. PICK k \in Nat : k = i * SetBits
        BY <3>1
      <3>3. x - r.lo = k + b
        BY <2>1, <3>2, Zenon
      <3>4. r.lo + k + b = x
        BY <3>1, <3>3
      <3>5. QED  BY <3>2, <3>4, Zenon
    <2>5. QED  BY <2>2, <2>3, <2>4, Zenon
  <1>3. Decode(r, e) \subseteq r.lo .. r.hi
    BY DEF Decode
  <1>4. QED  BY <1>1, <1>2, <1>3

(* A clean array is told bit by bit by the set it stands for.              *)
LEMMA CleanBit ==
  ASSUME NEW r, RangeOk(r), NEW w, Clean(r, w), NEW i \in Indexes(r), NEW b \in Bits
  PROVE  b \in w[i] <=> r.lo + i * SetBits + b \in Decode(r, w)
  <1>1. PICK S : S = Decode(r, w)
    OBVIOUS
  <1>2. w = Encode(r, S) /\ S \subseteq Int
    BY <1>1, DecodeType DEF Clean
  <1>3. b \in Encode(r, S)[i] <=> r.lo + i * SetBits + b \in S
    BY <1>2, EncodeBit
  <1>4. QED  BY <1>1, <1>2, <1>3, Zenon

-----------------------------------------------------------------------------
(* The operators, on encoded sets.                                         *)

LEMMA EncodedPair ==
  ASSUME NEW r, NEW S, NEW T, RangeOk(r), S \subseteq Int, T \subseteq Int
  PROVE  \E a, c \in Layout(r) :
           /\ a = Encode(r, S) /\ c = Encode(r, T)
           /\ DOMAIN a = Indexes(r) /\ DOMAIN c = Indexes(r)
           /\ \A i \in Indexes(r) :
                /\ a[i] \subseteq Bits /\ c[i] \subseteq Bits
                /\ \A b \in Bits : /\ b \in a[i] <=> r.lo + i * SetBits + b \in S
                                   /\ b \in c[i] <=> r.lo + i * SetBits + b \in T
  <1>1. PICK a \in Layout(r), c \in Layout(r) : a = Encode(r, S) /\ c = Encode(r, T)
    BY EncodeType
  <1>2. /\ DOMAIN a = Indexes(r) /\ DOMAIN c = Indexes(r)
        /\ \A i \in Indexes(r) : a[i] \subseteq Bits /\ c[i] \subseteq Bits
    BY DEF Layout, Word
  <1>3. ASSUME NEW i \in Indexes(r), NEW b \in Bits
        PROVE  /\ b \in a[i] <=> r.lo + i * SetBits + b \in S
               /\ b \in c[i] <=> r.lo + i * SetBits + b \in T
    BY <1>1, EncodeBit
  <1>4. QED  BY <1>1, <1>2, <1>3

LEMMA UnionEncoded ==
  ASSUME NEW r, NEW S, NEW T, NEW D, RangeOk(r), S \subseteq Int, T \subseteq Int,
         D = S \cup T
  PROVE  SetUnion(Encode(r, S), Encode(r, T)) = Encode(r, D)
  <1>1. PICK a, c \in Layout(r) :
          /\ a = Encode(r, S) /\ c = Encode(r, T)
          /\ DOMAIN a = Indexes(r) /\ DOMAIN c = Indexes(r)
          /\ \A i \in Indexes(r) :
               /\ a[i] \subseteq Bits /\ c[i] \subseteq Bits
               /\ \A b \in Bits : /\ b \in a[i] <=> r.lo + i * SetBits + b \in S
                                  /\ b \in c[i] <=> r.lo + i * SetBits + b \in T
    BY EncodedPair
  <1>2. SetUnion(a, c) \in Layout(r)
    BY <1>1 DEF SetUnion, Layout, Word
  <1>3. ASSUME NEW i \in Indexes(r), NEW b \in Bits
        PROVE  b \in SetUnion(a, c)[i] <=> r.lo + i * SetBits + b \in D
    BY <1>1, Zenon DEF SetUnion
  <1>4. D \subseteq Int
    OBVIOUS
  <1>5. SetUnion(a, c) = Encode(r, D)
    BY <1>2, <1>3, <1>4, EncodedBy
  <1>6. QED  BY <1>1, <1>5, Zenon

LEMMA DiffEncoded ==
  ASSUME NEW r, NEW S, NEW T, NEW D, RangeOk(r), S \subseteq Int, T \subseteq Int,
         D = S \ T
  PROVE  SetDiff(Encode(r, S), Encode(r, T)) = Encode(r, D)
  <1>1. PICK a, c \in Layout(r) :
          /\ a = Encode(r, S) /\ c = Encode(r, T)
          /\ DOMAIN a = Indexes(r) /\ DOMAIN c = Indexes(r)
          /\ \A i \in Indexes(r) :
               /\ a[i] \subseteq Bits /\ c[i] \subseteq Bits
               /\ \A b \in Bits : /\ b \in a[i] <=> r.lo + i * SetBits + b \in S
                                  /\ b \in c[i] <=> r.lo + i * SetBits + b \in T
    BY EncodedPair
  <1>2. SetDiff(a, c) \in Layout(r)
    BY <1>1 DEF SetDiff, Layout, Word
  <1>3. ASSUME NEW i \in Indexes(r), NEW b \in Bits
        PROVE  b \in SetDiff(a, c)[i] <=> r.lo + i * SetBits + b \in D
    BY <1>1, Zenon DEF SetDiff
  <1>4. D \subseteq Int
    OBVIOUS
  <1>5. SetDiff(a, c) = Encode(r, D)
    BY <1>2, <1>3, <1>4, EncodedBy
  <1>6. QED  BY <1>1, <1>5, Zenon

LEMMA IntersectEncoded ==
  ASSUME NEW r, NEW S, NEW T, NEW D, RangeOk(r), S \subseteq Int, T \subseteq Int,
         D = S \cap T
  PROVE  SetIntersect(Encode(r, S), Encode(r, T)) = Encode(r, D)
  <1>1. PICK a, c \in Layout(r) :
          /\ a = Encode(r, S) /\ c = Encode(r, T)
          /\ DOMAIN a = Indexes(r) /\ DOMAIN c = Indexes(r)
          /\ \A i \in Indexes(r) :
               /\ a[i] \subseteq Bits /\ c[i] \subseteq Bits
               /\ \A b \in Bits : /\ b \in a[i] <=> r.lo + i * SetBits + b \in S
                                  /\ b \in c[i] <=> r.lo + i * SetBits + b \in T
    BY EncodedPair
  <1>2. SetIntersect(a, c) \in Layout(r)
    BY <1>1 DEF SetIntersect, Layout, Word
  <1>3. ASSUME NEW i \in Indexes(r), NEW b \in Bits
        PROVE  b \in SetIntersect(a, c)[i] <=> r.lo + i * SetBits + b \in D
    BY <1>1, Zenon DEF SetIntersect
  <1>4. D \subseteq Int
    OBVIOUS
  <1>5. SetIntersect(a, c) = Encode(r, D)
    BY <1>2, <1>3, <1>4, EncodedBy
  <1>6. QED  BY <1>1, <1>5, Zenon

LEMMA SymDiffEncoded ==
  ASSUME NEW r, NEW S, NEW T, NEW D, RangeOk(r), S \subseteq Int, T \subseteq Int,
         D = (S \ T) \cup (T \ S)
  PROVE  SetSymDiff(Encode(r, S), Encode(r, T)) = Encode(r, D)
  <1>1. PICK a, c \in Layout(r) :
          /\ a = Encode(r, S) /\ c = Encode(r, T)
          /\ DOMAIN a = Indexes(r) /\ DOMAIN c = Indexes(r)
          /\ \A i \in Indexes(r) :
               /\ a[i] \subseteq Bits /\ c[i] \subseteq Bits
               /\ \A b \in Bits : /\ b \in a[i] <=> r.lo + i * SetBits + b \in S
                                  /\ b \in c[i] <=> r.lo + i * SetBits + b \in T
    BY EncodedPair
  <1>2. SetSymDiff(a, c) \in Layout(r)
    BY <1>1 DEF SetSymDiff, Layout, Word
  <1>3. ASSUME NEW i \in Indexes(r), NEW b \in Bits
        PROVE  b \in SetSymDiff(a, c)[i] <=> r.lo + i * SetBits + b \in D
    BY <1>1, Zenon DEF SetSymDiff
  <1>4. D \subseteq Int
    OBVIOUS
  <1>5. SetSymDiff(a, c) = Encode(r, D)
    BY <1>2, <1>3, <1>4, EncodedBy
  <1>6. QED  BY <1>1, <1>5, Zenon

LEMMA ComparisonEncoded ==
  ASSUME NEW r, NEW S, NEW T,
         RangeOk(r), S \subseteq r.lo .. r.hi, T \subseteq r.lo .. r.hi
  PROVE  /\ SetEqual(Encode(r, S), Encode(r, T)) <=> S = T
         /\ SetContains(Encode(r, S), Encode(r, T)) <=> S \subseteq T
  <1>0. S \subseteq Int /\ T \subseteq Int
    BY RangeFacts
  <1>1. SetEqual(Encode(r, S), Encode(r, T)) <=> S = T
    BY DecodeEncode DEF SetEqual
  <1>2. SetContains(Encode(r, S), Encode(r, T)) <=> S \cap T = S
    <2>1. SetContains(Encode(r, S), Encode(r, T))
            <=> SetIntersect(Encode(r, S), Encode(r, T)) = Encode(r, S)
      <3>1. PICK a \in Layout(r), c \in Layout(r) : a = Encode(r, S) /\ c = Encode(r, T)
        BY EncodeType
      <3>2. DOMAIN a = Indexes(r) /\ a = [i \in Indexes(r) |-> a[i]]
        BY DEF Layout
      <3>3. SetContains(a, c) <=> SetIntersect(a, c) = a
        BY <3>2 DEF SetContains, SetIntersect
      <3>4. QED  BY <3>1, <3>3
    <2>2. PICK D : D = S \cap T
      OBVIOUS
    <2>3. SetIntersect(Encode(r, S), Encode(r, T)) = Encode(r, D)
      BY <1>0, <2>2, IntersectEncoded
    <2>4. Encode(r, D) = Encode(r, S) <=> D = S
      <3>1. D \subseteq r.lo .. r.hi
        BY <2>2
      <3>2. QED  BY <3>1, DecodeEncode
    <2>5. QED  BY <2>1, <2>2, <2>3, <2>4
  <1>3. S \cap T = S <=> S \subseteq T
    OBVIOUS
  <1>4. QED  BY <1>1, <1>2, <1>3

(* x in s, for an x of the type.                                           *)
LEMMA TestDecoded ==
  ASSUME NEW r, RangeOk(r), NEW w, NEW x \in r.lo .. r.hi
  PROVE  InSet(r, w, x) = {(x \in Decode(r, w))}
  <1>1. PICK i \in Indexes(r), b \in Bits :
          /\ x - r.lo = i * SetBits + b
          /\ (x - r.lo) \div SetBits = i
          /\ (x - r.lo) % SetBits = b
    BY ElementIndex
  <1>2. x \in Decode(r, w) <=> b \in w[i]
    BY <1>1, Zenon DEF Decode
  <1>3. PICK o \in Nat : o = x - r.lo
    BY RangeFacts
  <1>4. i \in Nat /\ i < Size(r) /\ Size(r) \in Nat
    <2>1. i \in Nat /\ i * SetBits < Size(r) /\ i * SetBits \in Nat
      BY IndexInside
    <2>2. i <= i * SetBits
      BY <2>1, Width
    <2>3. QED  BY <2>1, <2>2, RangeFacts
  <1>5. CASE SetWords(r) = 1
    <2>1. i = 0
      BY <1>4, <1>5, RangeFacts
    <2>2. InSet(r, w, x) = {(b \in w[0])}
      <3>1. PICK n : n = SetWords(r)
        OBVIOUS
      <3>2. ~(n > 1)
        BY <1>5, <3>1
      <3>3. n = 1
        BY <1>5, <3>1
      <3>4. InSet(r, w, x) = {((x - r.lo) % SetBits \in w[0])}
        BY <3>1, <3>2, <3>3, Zenon DEF InSet
      <3>5. QED  BY <1>1, <3>4, Zenon
    <2>3. QED  BY <1>2, <2>1, <2>2
  <1>6. CASE SetWords(r) # 1
    <2>1. SetWords(r) > 1 /\ o >= 0 /\ ~(o < 0) /\ i <= Size(r) /\ ~(i > Size(r))
      BY <1>4, <1>6, RangeFacts
    <2>2. InSet(r, w, x) = {(b \in w[i])}
      <3>1. PICK n, z : n = SetWords(r) /\ z = Size(r)
        OBVIOUS
      <3>2. InSet(r, w, x) =
              CASE n = 1 -> {(b \in w[0])}
                [] n > 1 /\ o < 0 -> {FALSE}
                [] n > 1 /\ o >= 0 /\ i > z -> {FALSE}
                [] n > 1 /\ o >= 0 /\ i <= z ->
                     IF i \in Indexes(r) THEN {(b \in w[i])} ELSE BOOLEAN
        BY <1>1, <1>3, <3>1, Zenon DEF InSet
      <3>3. QED  BY <1>3, <1>6, <2>1, <3>1, <3>2
    <2>3. QED  BY <1>2, <2>2
  <1>7. QED  BY <1>5, <1>6

-----------------------------------------------------------------------------
(* Sets that are listed.                                                   *)

LEMMA MaxOfTwo ==
  ASSUME NEW a \in Int, NEW b \in Int, a <= b
  PROVE  Max({a, b}) = b /\ Min({a, b}) = a
  <1>1. \A x \in {a, b} : (\A y \in {a, b} : x >= y) <=> x = b
    OBVIOUS
  <1>2. \A x \in {a, b} : (\A y \in {a, b} : x <= y) <=> x = a
    OBVIOUS
  <1>3. Max({a, b}) = b
    BY <1>1, Zenon DEF Max
  <1>4. Min({a, b}) = a
    BY <1>2, Zenon DEF Min
  <1>5. QED  BY <1>3, <1>4

LEMMA ItemType ==
  ASSUME NEW r \in Ranges, NEW items \in ItemLists, Fits(r, items), NEW i \in items
  PROVE  /\ i.lo \in Int /\ i.hi \in Int /\ i.single \in BOOLEAN
         /\ i.single => i.lo = i.hi
         /\ r.lo <= i.lo /\ i.lo <= i.hi /\ i.hi <= r.hi
  <1>1. i \in [lo : Int, hi : Int, single : BOOLEAN] /\ (i.single => i.lo = i.hi)
    BY SetsAssumption
  <1>2. r.lo <= i.lo /\ i.lo <= i.hi /\ i.hi <= r.hi
    BY DEF Fits
  <1>3. QED  BY <1>1, <1>2

(* Both ways of making the set take the offsets of the item's values.      *)
LEMMA ItemOffsets ==
  ASSUME NEW r \in Ranges, NEW items \in ItemLists, Fits(r, items), NEW i \in items
  PROVE  /\ ConstantOffsets(r, i) = i.lo - r.lo .. i.hi - r.lo
         /\ DynamicOffsets(r, i) = i.lo - r.lo .. i.hi - r.lo
  <1>1. PICK l, h : l = i.lo - r.lo /\ h = i.hi - r.lo
    OBVIOUS
  <1>2. /\ r.lo \in Int /\ r.hi \in Int /\ Size(r) = r.hi - r.lo + 1
    BY RangesOk, RangeFacts
  <1>3. /\ i.lo \in Int /\ i.hi \in Int /\ i.single \in BOOLEAN
        /\ i.single => i.lo = i.hi
        /\ r.lo <= i.lo /\ i.lo <= i.hi /\ i.hi <= r.hi
    BY ItemType
  <1>4. l \in Int /\ h \in Int /\ 0 <= l /\ l <= h /\ h <= Size(r) - 1 /\ Size(r) \in Int
    BY <1>1, <1>2, <1>3
  <1>5. /\ Max({0, l}) = l /\ Max({l, h}) = h
        /\ Min({h, Size(r)}) = h /\ {Size(r), h} = {h, Size(r)}
    <2>1. PICK z \in Int : z = Size(r) /\ h <= z
      BY <1>4
    <2>2. Max({0, l}) = l
      BY <1>4, MaxOfTwo
    <2>3. Max({l, h}) = h
      BY <1>4, MaxOfTwo
    <2>4. Min({h, z}) = h
      BY <1>4, <2>1, MaxOfTwo
    <2>5. {z, h} = {h, z}
      OBVIOUS
    <2>6. QED  BY <2>1, <2>2, <2>3, <2>4, <2>5, Zenon
  <1>6. CASE i.single
    <2>1. h = l /\ l .. h = {l} /\ {l} \cap 0 .. Size(r) - 1 = {l}
      BY <1>1, <1>3, <1>4, <1>6
    <2>2. ConstantOffsets(r, i) = {l} \cap 0 .. Size(r) - 1
      BY <1>1, <1>6 DEF ConstantOffsets
    <2>3. DynamicOffsets(r, i) = {l}
      BY <1>1, <1>6 DEF DynamicOffsets
    <2>4. QED  BY <1>1, <2>1, <2>2, <2>3, Zenon
  <1>7. CASE ~i.single
    <2>1. ConstantOffsets(r, i) = Max({0, l}) .. Min({Size(r), h})
      BY <1>1, <1>7, Zenon DEF ConstantOffsets
    <2>2. DynamicOffsets(r, i) = l .. Max({l, h})
      BY <1>1, <1>7, Zenon DEF DynamicOffsets
    <2>3. QED  BY <1>1, <1>5, <2>1, <2>2, Zenon
  <1>8. QED  BY <1>6, <1>7

LEMMA ListedOffsets ==
  ASSUME NEW r \in Ranges, NEW items \in ItemLists, Fits(r, items)
  PROVE  /\ Pascal!Listed(items) \subseteq r.lo .. r.hi
         /\ AllConstantOffsets(r, items) = {x - r.lo : x \in Pascal!Listed(items)}
         /\ UNION {DynamicOffsets(r, i) : i \in items}
              = {x - r.lo : x \in Pascal!Listed(items)}
  <1>1. r.lo \in Int /\ r.hi \in Int
    BY RangesOk, RangeFacts
  <1>2. ASSUME NEW i \in items
        PROVE  /\ i.lo .. i.hi \subseteq r.lo .. r.hi
               /\ i.lo - r.lo .. i.hi - r.lo = {x - r.lo : x \in i.lo .. i.hi}
    <2>1. i.lo \in Int /\ i.hi \in Int /\ r.lo <= i.lo /\ i.hi <= r.hi
      BY ItemType
    <2>2. i.lo .. i.hi \subseteq r.lo .. r.hi
      BY <1>1, <2>1
    <2>3. ASSUME NEW o \in i.lo - r.lo .. i.hi - r.lo
          PROVE  o \in {x - r.lo : x \in i.lo .. i.hi}
      <3>1. PICK x \in i.lo .. i.hi : x = o + r.lo
        BY <1>1, <2>1
      <3>2. o = x - r.lo
        BY <1>1, <2>1, <3>1
      <3>3. QED  BY <3>2
    <2>4. \A x \in i.lo .. i.hi : x - r.lo \in i.lo - r.lo .. i.hi - r.lo
      BY <1>1, <2>1
    <2>5. QED  BY <2>2, <2>3, <2>4
  <1>3. \A i \in items : /\ ConstantOffsets(r, i) = {x - r.lo : x \in i.lo .. i.hi}
                         /\ DynamicOffsets(r, i) = {x - r.lo : x \in i.lo .. i.hi}
    BY <1>2, ItemOffsets
  <1>4. Pascal!Listed(items) = UNION {i.lo .. i.hi : i \in items}
    BY DEF Pascal!Listed
  <1>5. Pascal!Listed(items) \subseteq r.lo .. r.hi
    BY <1>2, <1>4
  <1>6. AllConstantOffsets(r, items) = {x - r.lo : x \in Pascal!Listed(items)}
    BY <1>3, <1>4 DEF AllConstantOffsets
  <1>7. UNION {DynamicOffsets(r, i) : i \in items} = {x - r.lo : x \in Pascal!Listed(items)}
    BY <1>3, <1>4
  <1>8. QED  BY <1>5, <1>6, <1>7

LEMMA ConstantList ==
  ASSUME NEW r \in Ranges, NEW items \in ItemLists, Fits(r, items)
  PROVE  /\ ~PastElems(r, items)
         /\ MakeConstantSetArray(r, items) = Encode(r, Pascal!Listed(items))
  <1>1. AllConstantOffsets(r, items) = {x - r.lo : x \in Pascal!Listed(items)}
    BY ListedOffsets
  <1>2. ASSUME NEW x \in Pascal!Listed(items) PROVE ~(x - r.lo >= MaxSetWords * SetBits)
    <2>1. x \in r.lo .. r.hi
      BY ListedOffsets
    <2>2. r.lo \in Int /\ r.hi \in Int /\ Size(r) = r.hi - r.lo + 1
      BY RangesOk, RangeFacts
    <2>3. PICK m \in Int : m = MaxSetWords * SetBits
      BY SetWordsAssumption
    <2>4. Size(r) <= m
      BY <2>3, RangesOk
    <2>5. QED  BY <2>1, <2>2, <2>3, <2>4
  <1>3. ~PastElems(r, items)
    BY <1>1, <1>2, Zenon DEF PastElems
  <1>4. MakeConstantSetArray(r, items) = Encode(r, Pascal!Listed(items))
    BY <1>1, Zenon DEF MakeConstantSetArray, Encode
  <1>5. QED  BY <1>3, <1>4

LEMMA DynamicList ==
  ASSUME NEW r \in Ranges, NEW items \in ItemLists, Fits(r, items)
  PROVE  SetFromItems(r, items) = Encode(r, Pascal!Listed(items))
  <1>r. RangeOk(r)
    BY RangesOk
  <1>1. PICK S : S = Pascal!Listed(items)
    OBVIOUS
  <1>2. S \subseteq r.lo .. r.hi /\ S \subseteq Int
    <2>1. S \subseteq r.lo .. r.hi
      BY <1>1, ListedOffsets
    <2>2. QED  BY <1>r, <2>1, RangeFacts
  <1>3. PICK offsets : offsets = {x - r.lo : x \in S}
    OBVIOUS
  <1>4. DynamicBits(r, items) = {<<WordIndex(r, o), o % SetBits>> : o \in offsets}
    BY <1>1, <1>3, ListedOffsets, Zenon DEF DynamicBits
  <1>5. ASSUME NEW x \in S, NEW i \in Indexes(r), NEW b \in Bits
        PROVE  WordIndex(r, x - r.lo) = i /\ (x - r.lo) % SetBits = b
                 <=> x = r.lo + i * SetBits + b
    <2>1. x \in r.lo .. r.hi
      BY <1>2
    <2>2. PICK j \in Indexes(r), c \in Bits :
            /\ x - r.lo = j * SetBits + c
            /\ (x - r.lo) \div SetBits = j
            /\ (x - r.lo) % SetBits = c
      BY <1>r, <2>1, ElementIndex
    <2>3. WordIndex(r, x - r.lo) = j
      <3>1. SetWords(r) = 1 => j = 0
        <4>1. Indexes(r) = 0 .. SetWords(r) - 1
          BY <1>r, RangeFacts
        <4>2. QED  BY <2>2, <4>1
      <3>2. QED  BY <2>2, <3>1, Zenon DEF WordIndex
    <2>4. /\ i \in Nat /\ i * SetBits \in Nat /\ b \in Nat
          /\ j \in Nat /\ j * SetBits \in Nat /\ c \in Nat
          /\ r.lo \in Int /\ x \in Int
      BY <1>r, <1>2, IndexInside, RangeFacts, Width
    <2>5. PICK k \in Nat, l \in Nat : k = i * SetBits /\ l = j * SetBits
      BY <2>4
    <2>6. x = r.lo + i * SetBits + b <=> i * SetBits + b = j * SetBits + c
      <3>1. x - r.lo = l + c
        BY <2>2, <2>5, Zenon
      <3>2. x = r.lo + k + b <=> k + b = l + c
        BY <2>4, <3>1
      <3>3. QED  BY <2>5, <3>2, Zenon
    <2>7. i * SetBits + b = j * SetBits + c <=> i = j /\ b = c
      BY <2>4, OneBit
    <2>8. QED  BY <2>2, <2>3, <2>6, <2>7, Zenon
  <1>6. ASSUME NEW i \in Indexes(r), NEW b \in Bits
        PROVE  <<i, b>> \in DynamicBits(r, items) <=> r.lo + i * SetBits + b \in S
    <2>1. <<i, b>> \in DynamicBits(r, items)
            <=> \E x \in S : WordIndex(r, x - r.lo) = i /\ (x - r.lo) % SetBits = b
      <3>1. \A o : <<WordIndex(r, o), o % SetBits>> = <<i, b>>
                     <=> WordIndex(r, o) = i /\ o % SetBits = b
        OBVIOUS
      <3>2. QED  BY <1>3, <1>4, <3>1, Zenon
    <2>2. QED  BY <1>5, <2>1, Zenon
  <1>7. SetFromItems(r, items) \in Layout(r)
    BY DEF SetFromItems, Layout, Word
  <1>8. ASSUME NEW i \in Indexes(r), NEW b \in Bits
        PROVE  b \in SetFromItems(r, items)[i] <=> r.lo + i * SetBits + b \in S
    BY <1>6, Zenon DEF SetFromItems
  <1>9. SetFromItems(r, items) = Encode(r, S)
    BY <1>r, <1>2, <1>7, <1>8, EncodedBy
  <1>10. QED  BY <1>1, <1>9

-----------------------------------------------------------------------------
(* Conversions.                                                            *)

LEMMA ShiftRightBit ==
  ASSUME NEW u, NEW n \in Nat, u \subseteq Bits
  PROVE  /\ ShiftRight(u, n) \subseteq Bits
         /\ \A b \in Bits : b \in ShiftRight(u, n) <=> b + n \in u
  <1>1. \A c \in u : c \in Nat /\ c <= SetBits - 1 /\ SetBits \in Nat
    BY Width
  <1>2. ShiftRight(u, n) \subseteq Bits
    BY <1>1, Width DEF ShiftRight
  <1>3. ASSUME NEW b \in Bits
        PROVE  b \in ShiftRight(u, n) <=> b + n \in u
    <2>1. b \in Nat
      BY Width
    <2>2. ASSUME b \in ShiftRight(u, n) PROVE b + n \in u
      <3>1. PICK c \in u : c >= n /\ b = c - n
        BY <2>2 DEF ShiftRight
      <3>2. c = b + n
        BY <1>1, <2>1, <3>1
      <3>3. QED  BY <3>2
    <2>3. ASSUME b + n \in u PROVE b \in ShiftRight(u, n)
      <3>1. PICK c \in u : c = b + n
        BY <2>3
      <3>2. c >= n /\ b = c - n
        BY <2>1, <3>1
      <3>3. QED  BY <3>2 DEF ShiftRight
    <2>4. QED  BY <2>2, <2>3
  <1>4. QED  BY <1>2, <1>3

LEMMA ShiftLeftBit ==
  ASSUME NEW u, NEW n \in Nat, u \subseteq Bits
  PROVE  /\ ShiftLeft(u, n) \subseteq Bits
         /\ \A b \in Bits : b \in ShiftLeft(u, n) <=> b - n \in u
  <1>1. \A c \in u : c \in Nat /\ c <= SetBits - 1 /\ SetBits \in Nat
    BY Width
  <1>2. ShiftLeft(u, n) \subseteq Bits
    BY <1>1, Width DEF ShiftLeft
  <1>3. ASSUME NEW b \in Bits
        PROVE  b \in ShiftLeft(u, n) <=> b - n \in u
    <2>1. b \in Nat /\ b < SetBits
      BY Width
    <2>2. ASSUME b \in ShiftLeft(u, n) PROVE b - n \in u
      <3>1. PICK c \in u : b = c + n
        BY <2>2 DEF ShiftLeft
      <3>2. c = b - n
        BY <1>1, <2>1, <3>1
      <3>3. QED  BY <3>2
    <2>3. ASSUME b - n \in u PROVE b \in ShiftLeft(u, n)
      <3>1. PICK c \in u : c = b - n
        BY <2>3
      <3>2. c + n < SetBits /\ b = c + n
        BY <2>1, <3>1
      <3>3. QED  BY <3>2 DEF ShiftLeft
    <2>4. QED  BY <2>2, <2>3
  <1>4. QED  BY <1>2, <1>3

LEMMA FloorIs ==
  ASSUME NEW x \in Int
  PROVE  Floor(x) \in Int /\ Floor(x) <= x /\ x < Floor(x) + SetBits
  <1>1. PICK q : q = x \div SetBits
    OBVIOUS
  <1>2. PICK m : m = x % SetBits
    OBVIOUS
  <1>3. m \in Int /\ m \in 0 .. SetBits - 1
    BY <1>2, Width
  <1>4. q \in Int
    BY <1>1, Width
  <1>5. x = q * SetBits + m
    BY <1>1, <1>2, <1>3, <1>4, Width
  <1>6. Floor(x) = q * SetBits
    BY <1>1, Zenon DEF Floor
  <1>7. PICK k \in Int : k = q * SetBits
    BY <1>4, Width
  <1>8. k <= x /\ x < k + SetBits
    BY <1>3, <1>5, <1>7, Width
  <1>9. QED  BY <1>6, <1>7, <1>8, Zenon

(* One word of the converted array: the bits of the elements from i on.    *)
LEMMA ConvertedBit ==
  ASSUME NEW l, NEW r, NEW w, NEW i \in Int, RangeOk(r), w \in Layout(r), Clean(r, w),
         Floor(r.lo) <= i, i < r.hi
  PROVE  /\ ConvertedWord(l, r, w, i) \subseteq Bits
         /\ \A b \in Bits : b \in ConvertedWord(l, r, w, i) <=> i + b \in Decode(r, w)
  <1>1. PICK S : S = Decode(r, w)
    OBVIOUS
  <1>2. /\ r.lo \in Int /\ r.hi \in Int
        /\ S \subseteq r.lo .. r.hi
        /\ \A j \in Indexes(r) : w[j] \subseteq Bits
    BY <1>1, RangeFacts, DecodeType DEF Layout, Word
  <1>c. \A j \in Indexes(r), b \in Bits : b \in w[j] <=> r.lo + j * SetBits + b \in S
    BY <1>1, CleanBit
  <1>b. SetBits \in Nat \ {0} /\ Bits = 0 .. SetBits - 1
    BY Width
  <1>3. CASE i <= r.lo
    <2>1. PICK d : d = r.lo - i
      OBVIOUS
    <2>2. d \in Nat /\ d < SetBits
      <3>1. Floor(r.lo) \in Int /\ r.lo < Floor(r.lo) + SetBits
        BY <1>2, FloorIs
      <3>2. QED  BY <1>2, <1>3, <1>b, <2>1, <3>1
    <2>3. ConvertedWord(l, r, w, i) = ShiftLeft(w[0], d)
      BY <1>2, <1>3, <2>1 DEF ConvertedWord
    <2>4. 0 \in Indexes(r)
      BY RangeFacts
    <2>5. ASSUME NEW b \in Bits
          PROVE  b - d \in w[0] <=> i + b \in S
      <3>1. CASE b - d \in Bits
        <4>1. b - d \in w[0] <=> r.lo + 0 * SetBits + (b - d) \in S
          BY <1>c, <2>4, <3>1
        <4>2. r.lo + 0 * SetBits + (b - d) = i + b
          BY <1>2, <1>b, <2>1
        <4>3. QED  BY <4>1, <4>2, Zenon
      <3>2. CASE b - d \notin Bits
        <4>1. b - d \notin w[0]
          BY <1>2, <2>4, <3>2
        <4>2. i + b < r.lo
          BY <1>2, <1>b, <2>1, <2>2, <3>2
        <4>3. i + b \notin S
          BY <1>2, <1>b, <4>2
        <4>4. QED  BY <4>1, <4>3
      <3>3. QED  BY <3>1, <3>2
    <2>6. w[0] \subseteq Bits
      BY <1>2, <2>4
    <2>7. /\ ShiftLeft(w[0], d) \subseteq Bits
          /\ \A b \in Bits : b \in ShiftLeft(w[0], d) <=> b - d \in w[0]
      BY <2>2, <2>6, ShiftLeftBit
    <2>8. QED  BY <1>1, <2>3, <2>5, <2>7
  <1>4. CASE i > r.lo
    <2>1. i \in r.lo .. r.hi
      BY <1>2, <1>4
    <2>2. PICK sp \in Indexes(r), shift \in Bits :
            /\ i - r.lo = sp * SetBits + shift
            /\ (i - r.lo) \div SetBits = sp
            /\ (i - r.lo) % SetBits = shift
      BY <2>1, ElementIndex
    <2>3. PICK rest : rest = IF shift > 0 /\ sp + 1 < SetWords(r)
                               THEN ShiftLeft(w[sp + 1], SetBits - shift) ELSE {}
      OBVIOUS
    <2>4. ConvertedWord(l, r, w, i) = ShiftRight(w[sp], shift) \cup rest
      <3>1. ~(i <= r.lo)
        BY <1>2, <1>4
      <3>2. QED  BY <1>4, <2>2, <2>3, <3>1, Zenon DEF ConvertedWord
    <2>5. /\ sp \in Nat /\ sp + 1 \in Nat /\ SetWords(r) \in Nat
          /\ shift \in Nat /\ shift < SetBits /\ SetBits - shift \in Nat
      BY <1>b, IndexInside, RangeFacts
    <2>6. /\ ShiftRight(w[sp], shift) \subseteq Bits
          /\ \A b \in Bits : b \in ShiftRight(w[sp], shift) <=> b + shift \in w[sp]
      BY <1>2, <2>5, ShiftRightBit
    <2>7. PICK k \in Nat : k = sp * SetBits
      BY IndexInside
    <2>8. i = r.lo + k + shift
      <3>1. i - r.lo = k + shift
        BY <2>2, <2>7, Zenon
      <3>2. QED  BY <1>2, <2>5, <3>1
    <2>9. CASE shift > 0 /\ sp + 1 < SetWords(r)
      <3>1. sp + 1 \in Indexes(r) /\ (sp + 1) * SetBits = k + SetBits
        BY <1>b, <2>5, <2>7, <2>9, RangeFacts
      <3>2. /\ rest \subseteq Bits
            /\ \A b \in Bits : b \in rest <=> b - (SetBits - shift) \in w[sp + 1]
        <4>1. rest = ShiftLeft(w[sp + 1], SetBits - shift)
          BY <2>3, <2>9
        <4>2. w[sp + 1] \subseteq Bits
          BY <1>2, <3>1
        <4>3. QED  BY <2>5, <4>1, <4>2, ShiftLeftBit
      <3>3. ASSUME NEW b \in Bits
            PROVE  b + shift \in w[sp] \/ b - (SetBits - shift) \in w[sp + 1] <=> i + b \in S
        <4>1. CASE b + shift < SetBits
          <5>1. b + shift \in Bits /\ b - (SetBits - shift) \notin Bits
            BY <1>b, <2>5, <4>1
          <5>2. b - (SetBits - shift) \notin w[sp + 1]
            BY <1>2, <3>1, <5>1
          <5>3. b + shift \in w[sp] <=> r.lo + sp * SetBits + (b + shift) \in S
            BY <1>c, <5>1
          <5>4. r.lo + k + (b + shift) = i + b
            BY <1>2, <1>b, <2>5, <2>8
          <5>5. QED  BY <2>7, <5>2, <5>3, <5>4, Zenon
        <4>2. CASE ~(b + shift < SetBits)
          <5>1. b + shift \notin Bits /\ b - (SetBits - shift) \in Bits
            BY <1>b, <2>5, <4>2
          <5>2. b + shift \notin w[sp]
            BY <1>2, <5>1
          <5>3. b - (SetBits - shift) \in w[sp + 1]
                  <=> r.lo + (sp + 1) * SetBits + (b - (SetBits - shift)) \in S
            BY <1>c, <3>1, <5>1
          <5>4. r.lo + (k + SetBits) + (b - (SetBits - shift)) = i + b
            BY <1>2, <1>b, <2>5, <2>8
          <5>5. QED  BY <3>1, <5>2, <5>3, <5>4, Zenon
        <4>3. QED  BY <4>1, <4>2
      <3>4. QED  BY <1>1, <2>4, <2>6, <3>2, <3>3, Zenon
    <2>10. CASE ~(shift > 0 /\ sp + 1 < SetWords(r))
      <3>1. rest = {}
        BY <2>3, <2>10
      <3>2. ASSUME NEW b \in Bits
            PROVE  b + shift \in w[sp] <=> i + b \in S
        <4>1. CASE b + shift < SetBits
          <5>1. b + shift \in Bits
            BY <1>b, <2>5, <4>1
          <5>2. b + shift \in w[sp] <=> r.lo + sp * SetBits + (b + shift) \in S
            BY <1>c, <5>1
          <5>3. r.lo + k + (b + shift) = i + b
            BY <1>2, <1>b, <2>5, <2>8
          <5>4. QED  BY <2>7, <5>2, <5>3, Zenon
        <4>2. CASE ~(b + shift < SetBits)
          <5>1. b + shift \notin Bits /\ shift > 0
            BY <1>b, <2>5, <4>2
          <5>2. b + shift \notin w[sp]
            BY <1>2, <5>1
          <5>3. PICK n \in Nat : n = SetWords(r)
            BY <2>5
          <5>4. n <= sp + 1
            BY <2>5, <2>10, <5>1, <5>3
          <5>5. n * SetBits <= k + SetBits /\ n * SetBits \in Nat
            <6>1. n * SetBits <= (sp + 1) * SetBits
              BY <1>b, <2>5, <5>4
            <6>2. (sp + 1) * SetBits = k + SetBits
              BY <1>b, <2>5, <2>7
            <6>3. QED  BY <1>b, <6>1, <6>2
          <5>6. r.hi - r.lo + 1 <= n * SetBits
            BY <5>3, RangeFacts, Zenon
          <5>7. i + b > r.hi
            <6>1. PICK lo \in Int, hi \in Int, m \in Nat :
                    lo = r.lo /\ hi = r.hi /\ m = n * SetBits
              BY <1>2, <5>5
            <6>2. hi - lo + 1 <= m /\ m <= k + SetBits /\ i = lo + k + shift
              BY <2>8, <5>5, <5>6, <6>1, Zenon
            <6>3. i + b > hi
              BY <1>b, <2>5, <4>2, <6>2
            <6>4. QED  BY <6>1, <6>3
          <5>8. i + b \notin S
            BY <1>2, <1>b, <5>7
          <5>9. QED  BY <5>2, <5>8
        <4>3. QED  BY <4>1, <4>2
      <3>3. QED  BY <1>1, <2>4, <2>6, <3>1, <3>2
    <2>11. QED  BY <2>9, <2>10
  <1>5. QED  BY <1>2, <1>3, <1>4

(* A conversion to a range around r writes every word, and the set is the  *)
(* same set.                                                               *)
LEMMA Converted ==
  ASSUME NEW l, NEW r, NEW w, RangeOk(l), RangeOk(r), l # r, Converts(l, r),
         w \in Layout(r), Clean(r, w)
  PROVE  /\ Reached(l) = Indexes(l)
         /\ ConvertSet(l, r, w) = Encode(l, Decode(r, w))
         /\ Decode(r, w) \subseteq l.lo .. l.hi
  <1>1. PICK S : S = Decode(r, w)
    OBVIOUS
  <1>2. /\ r.lo \in Int /\ r.hi \in Int /\ l.lo \in Int /\ l.hi \in Int
        /\ l.lo <= r.lo /\ r.hi <= l.hi
        /\ S \subseteq r.lo .. r.hi /\ S \subseteq Int
    BY <1>1, RangeFacts, DecodeType DEF Converts
  <1>3. ASSUME NEW p \in Indexes(l)
        PROVE  /\ p * SetBits \in Nat
               /\ l.lo + p * SetBits \in l.lo .. l.hi
               /\ l.lo + p * SetBits \notin {l.hi, r.hi}
               /\ ~(l.lo + p * SetBits < Floor(r.lo) /\ l.lo + p * SetBits + SetBits > r.lo)
    <2>1. p * SetBits \in Nat /\ l.lo + p * SetBits \in l.lo .. l.hi
      BY IndexInside
    <2>2. /\ l.lo + p * SetBits \notin {l.hi, r.hi}
          /\ ~(l.lo + p * SetBits < Floor(r.lo) /\ l.lo + p * SetBits + SetBits > r.lo)
      BY Zenon DEF Converts
    <2>3. QED  BY <2>1, <2>2
  <1>4. Reached(l) = Indexes(l)
    <2>1. ASSUME NEW p \in Indexes(l) PROVE l.lo + p * SetBits < l.hi
      <3>1. PICK i \in Int : i = l.lo + p * SetBits
        BY <1>2, <1>3
      <3>2. i \in l.lo .. l.hi /\ i # l.hi
        BY <1>3, <3>1
      <3>3. i < l.hi
        BY <1>2, <3>2
      <3>4. QED  BY <3>1, <3>3, Zenon
    <2>2. QED  BY <2>1, Zenon DEF Reached
  <1>5. ASSUME NEW p \in Indexes(l)
        PROVE  /\ ConvertSet(l, r, w)[p] \subseteq Bits
               /\ \A b \in Bits : b \in ConvertSet(l, r, w)[p]
                                    <=> l.lo + p * SetBits + b \in S
    <2>1. PICK i \in Int : i = l.lo + p * SetBits
      BY <1>2, <1>3
    <2>2. ConvertSet(l, r, w)[p]
            = IF i >= Floor(r.lo) /\ i < r.hi THEN ConvertedWord(l, r, w, i) ELSE {}
      BY <1>4, <2>1, Zenon DEF ConvertSet
    <2>3. Floor(r.lo) \in Int /\ i # r.hi /\ ~(i < Floor(r.lo) /\ i + SetBits > r.lo)
      BY <1>2, <1>3, <2>1, FloorIs
    <2>4. CASE i >= Floor(r.lo) /\ i < r.hi
      <3>1. /\ ConvertedWord(l, r, w, i) \subseteq Bits
            /\ \A b \in Bits : b \in ConvertedWord(l, r, w, i) <=> i + b \in S
        BY <1>1, <2>3, <2>4, ConvertedBit
      <3>2. QED  BY <2>1, <2>2, <2>4, <3>1, Zenon
    <2>5. CASE ~(i >= Floor(r.lo) /\ i < r.hi)
      <3>1. ConvertSet(l, r, w)[p] = {}
        BY <2>2, <2>5, Zenon
      <3>2. ASSUME NEW b \in Bits PROVE i + b \notin S
        <4>1. b \in Nat /\ b < SetBits /\ SetBits \in Nat
          BY Width
        <4>2. PICK lo \in Int, hi \in Int, fl \in Int : lo = r.lo /\ hi = r.hi /\ fl = Floor(r.lo)
          BY <1>2, <2>3
        <4>3. ~(i >= fl /\ i < hi) /\ i # hi /\ ~(i < fl /\ i + SetBits > lo)
          BY <2>3, <2>5, <4>2
        <4>4. ~(lo <= i + b /\ i + b <= hi)
          BY <4>1, <4>3
        <4>5. i + b \in S => lo <= i + b /\ i + b <= hi
          <5>1. S \subseteq lo .. hi
            BY <1>2, <4>2
          <5>2. QED  BY <4>1, <5>1
        <4>6. QED  BY <4>4, <4>5
      <3>3. QED  BY <2>1, <3>1, <3>2, Zenon
    <2>6. QED  BY <2>4, <2>5
  <1>6. ConvertSet(l, r, w) \in Layout(l)
    <2>1. PICK e : e = ConvertSet(l, r, w)
      OBVIOUS
    <2>2. e = [p \in Indexes(l) |-> e[p]]
      BY <1>4, <2>1, Zenon DEF ConvertSet
    <2>3. \A p \in Indexes(l) : e[p] \in Word
      BY <1>5, <2>1 DEF Word
    <2>4. e \in [Indexes(l) -> Word]
      BY <2>2, <2>3
    <2>5. QED  BY <2>1, <2>4 DEF Layout
  <1>7. ConvertSet(l, r, w) = Encode(l, S)
    BY <1>2, <1>5, <1>6, EncodedBy
  <1>8. S \subseteq l.lo .. l.hi
    BY <1>2
  <1>9. QED  BY <1>1, <1>4, <1>7, <1>8

(* A clean variable is Encode of its set; the empty set is clean.          *)
LEMMA EncodedClean ==
  ASSUME NEW r, NEW S, RangeOk(r), S \subseteq r.lo .. r.hi
  PROVE  /\ Encode(r, S) \in Layout(r)
         /\ Decode(r, Encode(r, S)) = S
         /\ Clean(r, Encode(r, S))
  BY EncodeType, DecodeEncode DEF Clean

(* A cast operand, or the array itself when the ranges are the same.       *)
LEMMA CastEncoded ==
  ASSUME NEW l, NEW r, NEW w, RangeOk(l), RangeOk(r), Converts(l, r),
         w \in Layout(r), Clean(r, w)
  PROVE  /\ Cast(l, r, w) = Encode(l, Decode(r, w))
         /\ Decode(r, w) \subseteq l.lo .. l.hi
  <1>1. CASE l = r
    <2>1. Cast(l, r, w) = w
      BY <1>1 DEF Cast
    <2>2. w = Encode(r, Decode(r, w)) /\ Decode(r, w) \subseteq r.lo .. r.hi
      BY DecodeType DEF Clean
    <2>3. QED  BY <1>1, <2>1, <2>2
  <1>2. CASE l # r
    <2>1. PICK c, e : c = ConvertSet(l, r, w) /\ e = Encode(l, Decode(r, w))
      OBVIOUS
    <2>2. /\ Reached(l) = Indexes(l) /\ c = e
          /\ Decode(r, w) \subseteq l.lo .. l.hi
      BY <1>2, <2>1, Converted
    <2>3. Cast(l, r, w) = [p \in Indexes(l) |-> IF p \in Indexes(l) THEN c[p] ELSE Junk]
      BY <1>2, <2>1, <2>2, Zenon DEF Cast
    <2>4. c \in [Indexes(l) -> Word]
      BY <2>1, <2>2, EncodeType DEF Layout
    <2>5. Cast(l, r, w) = c
      BY <2>3, <2>4
    <2>6. QED  BY <2>1, <2>2, <2>5
  <1>3. QED  BY <1>1, <1>2

(* A cast value, when it is as many words long.                            *)
LEMMA CastValueEncoded ==
  ASSUME NEW l, NEW r, NEW w, RangeOk(l), RangeOk(r), Assigns(l, r),
         w \in Layout(r), Clean(r, w)
  PROVE  /\ CastValue(l, r, w) = Encode(l, Decode(r, w))
         /\ Decode(r, w) \subseteq l.lo .. l.hi
  <1>0. Converts(l, r) /\ Indexes(l) = Indexes(r)
    BY DEF Assigns, Indexes
  <1>1. PICK c, e : c = Cast(l, r, w) /\ e = Encode(l, Decode(r, w))
    OBVIOUS
  <1>2. c = e /\ Decode(r, w) \subseteq l.lo .. l.hi
    BY <1>0, <1>1, CastEncoded
  <1>3. e \in [Indexes(l) -> Word]
    BY <1>1, EncodeType DEF Layout
  <1>4. CASE l = r
    <2>1. CastValue(l, r, w) = w /\ Cast(l, r, w) = w
      BY <1>4 DEF CastValue, Cast
    <2>2. QED  BY <1>1, <1>2, <2>1
  <1>5. CASE l # r
    <2>1. CastValue(l, r, w)
            = [p \in Indexes(l) |-> IF p \in Indexes(l) THEN c[p] ELSE Junk]
      BY <1>0, <1>1, <1>5, Zenon DEF CastValue
    <2>2. CastValue(l, r, w) = e
      BY <1>2, <1>3, <2>1
    <2>3. QED  BY <1>1, <1>2, <2>2
  <1>6. QED  BY <1>4, <1>5

-----------------------------------------------------------------------------
(* The statements.                                                         *)

(* The inductive invariant: every variable is an array of its type that    *)
(* has no stray bit, and there is one for each.                            *)
IInv ==
  /\ TypeOK
  /\ SetsAreClean
  /\ words = [v \in Variables |-> words[v]]

(* What the variables hold.                                                *)
Held == [v \in Variables |-> Decode(range[v], words[v])]

LEMMA VariableOk ==
  ASSUME IInv, NEW v \in Variables
  PROVE  /\ range[v] \in Ranges /\ RangeOk(range[v])
         /\ words[v] \in Layout(range[v]) /\ Clean(range[v], words[v])
         /\ Held[v] = Decode(range[v], words[v])
         /\ Held[v] \subseteq range[v].lo .. range[v].hi
         /\ words[v] = Encode(range[v], Held[v])
  <1>1. range[v] \in Ranges
    BY DEF IInv, TypeOK
  <1>2. RangeOk(range[v])
    BY <1>1, RangesOk
  <1>3. words[v] \in Layout(range[v]) /\ Clean(range[v], words[v])
    BY DEF IInv, TypeOK, SetsAreClean
  <1>4. Held[v] = Decode(range[v], words[v])
    BY DEF Held
  <1>5. Held[v] \subseteq range[v].lo .. range[v].hi
    BY <1>2, <1>4, DecodeType
  <1>6. words[v] = Encode(range[v], Held[v])
    BY <1>3, <1>4 DEF Clean
  <1>7. QED  BY <1>1, <1>2, <1>3, <1>4, <1>5, <1>6

(* Storing an encoded set of the type's values is what Pascal means.       *)
LEMMA Stored ==
  ASSUME IInv, NEW v \in Variables, NEW S, S \subseteq range[v].lo .. range[v].hi,
         Store(v, Encode(range[v], S)), range' = range, found' = found
  PROVE  IInv' /\ Held' = [Held EXCEPT ![v] = S]
  <1>1. PICK e : e = Encode(range[v], S)
    OBVIOUS
  <1>2. range[v] \in Ranges /\ RangeOk(range[v])
    BY VariableOk
  <1>3. e \in Layout(range[v]) /\ Decode(range[v], e) = S /\ Clean(range[v], e)
    BY <1>1, <1>2, EncodedClean
  <1>4. DOMAIN e = Indexes(range[v]) /\ e = [i \in Indexes(range[v]) |-> e[i]]
    BY <1>3 DEF Layout
  <1>5. ~overrun /\ DOMAIN words = Variables /\ overrun \in BOOLEAN
    <2>1. DOMAIN words = Variables
      BY DEF IInv
    <2>2. QED  BY <2>1 DEF IInv, SetsAreClean, TypeOK
  <1>6. words' = [words EXCEPT ![v] = e]
    <2>1. words' = [words EXCEPT ![v] =
                      [i \in Indexes(range[v]) |-> IF i \in DOMAIN e THEN e[i] ELSE @[i]]]
      BY <1>1, Zenon DEF Store
    <2>2. [i \in Indexes(range[v]) |-> IF i \in DOMAIN e THEN e[i] ELSE words[v][i]] = e
      BY <1>4
    <2>3. QED  BY <2>1, <2>2
  <1>7. ~overrun' /\ overrun' \in BOOLEAN
    <2>1. overrun' = (overrun \/ ~(DOMAIN e \subseteq Indexes(range[v])))
      BY <1>1, Zenon DEF Store
    <2>2. DOMAIN e \subseteq Indexes(range[v])
      BY <1>4
    <2>3. overrun' = FALSE
      BY <1>5, <2>1, <2>2, Zenon
    <2>4. QED  BY <2>3
  <1>8. words'[v] = e /\ \A x \in Variables : x # v => words'[x] = words[x]
    BY <1>5, <1>6
  <1>9. \A x \in Variables : words'[x] \in Layout(range[x]) /\ Clean(range[x], words'[x])
    BY <1>3, <1>8, VariableOk
  <1>10. TypeOK'
    <2>1. range' \in [Variables -> Ranges] /\ found' \in BOOLEAN
      BY Zenon DEF IInv, TypeOK
    <2>2. \A x \in Variables : words'[x] \in Layout(range'[x])
      BY <1>9
    <2>3. QED  BY <1>7, <2>1, <2>2, Zenon DEF TypeOK, Layout, Indexes, SetWords, Size
  <1>11. SetsAreClean'
    <2>1. \A x \in Variables : Clean(range'[x], words'[x])
      BY <1>9
    <2>2. QED  BY <1>7, <2>1, Zenon
             DEF SetsAreClean, Clean, Encode, Decode, WithOffsets, Indexes, SetWords, Size
  <1>12. words' = [x \in Variables |-> words'[x]]
    BY <1>5, <1>6
  <1>13. Held' = [x \in Variables |-> Decode(range[x], words'[x])]
    BY Zenon DEF Held, Decode
  <1>14. Held' = [Held EXCEPT ![v] = S]
    <2>1. \A x \in Variables : Held[x] = Decode(range[x], words[x])
      BY DEF Held
    <2>2. Held = [x \in Variables |-> Held[x]]
      BY DEF Held
    <2>3. \A x \in Variables : Held'[x] = IF x = v THEN S ELSE Held[x]
      BY <1>3, <1>8, <1>13, <2>1
    <2>4. Held' = [x \in Variables |-> Held'[x]]
      BY <1>13
    <2>5. QED  BY <2>2, <2>3, <2>4
  <1>15. QED  BY <1>10, <1>11, <1>12, <1>14 DEF IInv

LEMMA HeldIs == Held = [v \in Variables |-> Decode(range[v], words[v])]
  BY DEF Held

(* A statement that stores its result.                                     *)
LEMMA Assigned ==
  ASSUME NEW s \in Statements, "to" \in DOMAIN s, last' = s, found' = found,
         Held' = [Held EXCEPT ![s.to] = Pascal!Result(s)]
  PROVE  Pascal!Next
  <1>1. Pascal!Assign(s)
    BY HeldIs DEF Pascal!Assign, Held
  <1>2. QED  BY <1>1, Zenon DEF Pascal!Next

LEMMA Decided ==
  ASSUME NEW s \in Statements, "to" \notin DOMAIN s, last' = s, Held' = Held,
         found' = Pascal!Holds(s)
  PROVE  Pascal!Next
  <1>1. Pascal!Decide(s)
    BY HeldIs DEF Pascal!Decide, Held
  <1>2. QED  BY <1>1, Zenon DEF Pascal!Next

LEMMA ListStep ==
  ASSUME IInv, ListsFit = TRUE, NEW s \in Lists, List(s)
  PROVE  IInv' /\ Pascal!Next
  <1>1. /\ s.op = "list" /\ s.to \in Variables /\ s.items \in ItemLists /\ s.constant \in BOOLEAN
        /\ "to" \in DOMAIN s /\ s \in Statements
    BY DEF Lists, Statements
  <1>2. PICK r \in Ranges : r = range[s.to] /\ RangeOk(r)
    BY <1>1, VariableOk
  <1>3. PICK S : S = Pascal!Listed(s.items)
    OBVIOUS
  <1>4. Fits(r, s.items)
    BY <1>2, Zenon DEF List
  <1>5. /\ ~PastElems(r, s.items)
        /\ MakeConstantSetArray(r, s.items) = Encode(r, S)
        /\ SetFromItems(r, s.items) = Encode(r, S)
        /\ S \subseteq r.lo .. r.hi
    BY <1>1, <1>3, <1>4, ConstantList, DynamicList, ListedOffsets
  <1>6. Store(s.to, Encode(r, S)) /\ last' = s /\ range' = range /\ found' = found
    BY <1>2, <1>5 DEF List
  <1>7. IInv' /\ Held' = [Held EXCEPT ![s.to] = S]
    BY <1>1, <1>2, <1>5, <1>6, Stored
  <1>8. Pascal!Result(s) = S
    BY <1>1, <1>3 DEF Pascal!Result
  <1>9. QED  BY <1>1, <1>6, <1>7, <1>8, Assigned

LEMMA CopyStep ==
  ASSUME IInv, NEW s \in Copies, Copy(s)
  PROVE  IInv' /\ Pascal!Next
  <1>1. /\ s.op = "copy" /\ s.to \in Variables /\ s.left \in Variables
        /\ "to" \in DOMAIN s /\ s \in Statements
    BY DEF Copies, Statements
  <1>2. PICK l, r, w : l = range[s.to] /\ r = range[s.left] /\ w = words[s.left]
    OBVIOUS
  <1>3. /\ RangeOk(l) /\ RangeOk(r) /\ w \in Layout(r) /\ Clean(r, w)
        /\ Decode(r, w) = Held[s.left]
    BY <1>1, <1>2, VariableOk
  <1>4. Assigns(l, r)
    BY <1>2 DEF Copy
  <1>5. /\ CastValue(l, r, w) = Encode(l, Held[s.left])
        /\ Held[s.left] \subseteq l.lo .. l.hi
    <2>1. CastValue(l, r, w) = Encode(l, Decode(r, w)) /\ Decode(r, w) \subseteq l.lo .. l.hi
      BY <1>3, <1>4, CastValueEncoded
    <2>2. QED  BY <1>3, <2>1
  <1>6. /\ Store(s.to, Encode(l, Held[s.left]))
        /\ last' = s /\ range' = range /\ found' = found
    BY <1>2, <1>5 DEF Copy
  <1>7. IInv' /\ Held' = [Held EXCEPT ![s.to] = Held[s.left]]
    BY <1>1, <1>2, <1>5, <1>6, Stored
  <1>8. Pascal!Result(s) = Held[s.left]
    BY <1>1 DEF Pascal!Result, Held
  <1>9. QED  BY <1>1, <1>6, <1>7, <1>8, Assigned

(* The range both sides of an operator are brought to.                     *)
LEMMA JointOk ==
  ASSUME IInv, NEW x \in Variables, NEW y \in Variables
  PROVE  /\ RangeOk(Joint(x, y))
         /\ range[x] = range[y] => Joint(x, y) = range[x]
  <1>1. PICK r, q : r = range[x] /\ q = range[y]
    OBVIOUS
  <1>2. r \in [lo : Int, hi : Int] /\ q \in [lo : Int, hi : Int] /\ r.lo <= r.hi /\ q.lo <= q.hi
    BY <1>1, VariableOk DEF RangeOk
  <1>3. PICK a \in Int, b \in Int, c \in Int, d \in Int :
          a = r.lo /\ b = q.lo /\ c = r.hi /\ d = q.hi /\ a <= c /\ b <= d
    BY <1>2
  <1>4. Joint(x, y) = [lo |-> Min({a, b}), hi |-> Max({c, d})]
    BY <1>1, <1>3 DEF Joint
  <1>5. Min({a, b}) = IF a <= b THEN a ELSE b
    <2>1. {a, b} = {b, a}
      OBVIOUS
    <2>2. CASE a <= b
      BY <2>2, MaxOfTwo
    <2>3. CASE ~(a <= b)
      <3>1. Min({b, a}) = b
        BY <2>3, MaxOfTwo
      <3>2. QED  BY <2>1, <2>3, <3>1
    <2>4. QED  BY <2>2, <2>3
  <1>6. Max({c, d}) = IF c <= d THEN d ELSE c
    <2>1. {c, d} = {d, c}
      OBVIOUS
    <2>2. CASE c <= d
      BY <2>2, MaxOfTwo
    <2>3. CASE ~(c <= d)
      <3>1. Max({d, c}) = c
        BY <2>3, MaxOfTwo
      <3>2. QED  BY <2>1, <2>3, <3>1
    <2>4. QED  BY <2>2, <2>3
  <1>7. RangeOk(Joint(x, y))
    BY <1>3, <1>4, <1>5, <1>6 DEF RangeOk
  <1>8. ASSUME r = q PROVE Joint(x, y) = r
    <2>1. Joint(x, y) = [lo |-> a, hi |-> c]
      BY <1>3, <1>4, <1>5, <1>6, <1>8
    <2>2. r = [lo |-> a, hi |-> c]
      BY <1>2, <1>3
    <2>3. QED  BY <2>1, <2>2
  <1>9. QED  BY <1>1, <1>7, <1>8

LEMMA OperateStep ==
  ASSUME IInv, NEW s \in Operations, Operate(s)
  PROVE  IInv' /\ Pascal!Next
  <1>1. /\ s.op \in {"Union", "Intersect", "Diff", "SymDiff"}
        /\ s.to \in Variables /\ s.left \in Variables /\ s.right \in Variables
        /\ "to" \in DOMAIN s /\ s \in Statements
    BY DEF Operations, Statements
  <1>2. PICK l, r : l = range[s.to] /\ r = range[s.right]
    OBVIOUS
  <1>3. range[s.left] = r /\ Assigns(l, r) /\ RangeOk(l) /\ RangeOk(r)
    BY <1>1, <1>2, VariableOk DEF Operate
  <1>4. PICK S, T : S = Held[s.left] /\ T = Held[s.right]
    OBVIOUS
  <1>5. /\ words[s.left] = Encode(r, S) /\ words[s.right] = Encode(r, T)
        /\ S \subseteq r.lo .. r.hi /\ T \subseteq r.lo .. r.hi
    BY <1>1, <1>2, <1>3, <1>4, VariableOk
  <1>6. S \subseteq Int /\ T \subseteq Int
    BY <1>3, <1>5, RangeFacts
  <1>7. Joint(s.left, s.right) = r
    BY <1>1, <1>2, <1>3, JointOk
  <1>8. Operand(s.left, r) = Encode(r, S) /\ Operand(s.right, r) = Encode(r, T)
    BY <1>2, <1>3, <1>5 DEF Operand, Cast
  <1>9. PICK D : D = Pascal!Result(s)
    OBVIOUS
  <1>10. D = CASE s.op = "Union" -> S \cup T
               [] s.op = "Intersect" -> S \cap T
               [] s.op = "Diff" -> S \ T
               [] s.op = "SymDiff" -> (S \cup T) \ (S \cap T)
    BY <1>1, <1>4, <1>9 DEF Pascal!Result, Held
  <1>11. /\ SetOperation(s.op, Encode(r, S), Encode(r, T)) = Encode(r, D)
         /\ D \subseteq r.lo .. r.hi
    <2>1. CASE s.op = "Union"
      <3>1. D = S \cup T /\ D \subseteq r.lo .. r.hi
        BY <1>5, <1>10, <2>1
      <3>2. SetUnion(Encode(r, S), Encode(r, T)) = Encode(r, D)
        BY <1>3, <1>6, <3>1, UnionEncoded
      <3>3. SetOperation(s.op, Encode(r, S), Encode(r, T)) = SetUnion(Encode(r, S), Encode(r, T))
        BY <2>1 DEF SetOperation
      <3>4. QED  BY <3>1, <3>2, <3>3
    <2>2. CASE s.op = "Intersect"
      <3>1. D = S \cap T /\ D \subseteq r.lo .. r.hi
        BY <1>5, <1>10, <2>2
      <3>2. SetIntersect(Encode(r, S), Encode(r, T)) = Encode(r, D)
        BY <1>3, <1>6, <3>1, IntersectEncoded
      <3>3. SetOperation(s.op, Encode(r, S), Encode(r, T))
              = SetIntersect(Encode(r, S), Encode(r, T))
        BY <2>2 DEF SetOperation
      <3>4. QED  BY <3>1, <3>2, <3>3
    <2>3. CASE s.op = "Diff"
      <3>1. D = S \ T /\ D \subseteq r.lo .. r.hi
        BY <1>5, <1>10, <2>3
      <3>2. SetDiff(Encode(r, S), Encode(r, T)) = Encode(r, D)
        BY <1>3, <1>6, <3>1, DiffEncoded
      <3>3. SetOperation(s.op, Encode(r, S), Encode(r, T)) = SetDiff(Encode(r, S), Encode(r, T))
        BY <2>3 DEF SetOperation
      <3>4. QED  BY <3>1, <3>2, <3>3
    <2>4. CASE s.op = "SymDiff"
      <3>1. D = (S \ T) \cup (T \ S) /\ D \subseteq r.lo .. r.hi
        BY <1>5, <1>10, <2>4
      <3>2. SetSymDiff(Encode(r, S), Encode(r, T)) = Encode(r, D)
        BY <1>3, <1>6, <3>1, SymDiffEncoded
      <3>3. SetOperation(s.op, Encode(r, S), Encode(r, T))
              = SetSymDiff(Encode(r, S), Encode(r, T))
        BY <2>4 DEF SetOperation
      <3>4. QED  BY <3>1, <3>2, <3>3
    <2>5. QED  BY <1>1, <2>1, <2>2, <2>3, <2>4
  <1>12. PICK w : w = Encode(r, D)
    OBVIOUS
  <1>13. w \in Layout(r) /\ Decode(r, w) = D /\ Clean(r, w)
    BY <1>3, <1>11, <1>12, EncodedClean
  <1>14. CastValue(l, r, w) = Encode(l, D) /\ D \subseteq l.lo .. l.hi
    <2>1. CastValue(l, r, w) = Encode(l, Decode(r, w)) /\ Decode(r, w) \subseteq l.lo .. l.hi
      BY <1>3, <1>13, CastValueEncoded
    <2>2. QED  BY <1>13, <2>1
  <1>15. Store(s.to, Encode(l, D)) /\ last' = s /\ range' = range /\ found' = found
    <2>1. Store(s.to, CastValue(l, r, SetOperation(s.op, Operand(s.left, r), Operand(s.right, r))))
      BY <1>2, <1>7, Zenon DEF Operate
    <2>2. Store(s.to, Encode(l, D))
      BY <1>8, <1>11, <1>12, <1>14, <2>1
    <2>3. QED  BY <2>2 DEF Operate
  <1>16. IInv' /\ Held' = [Held EXCEPT ![s.to] = D]
    BY <1>1, <1>2, <1>14, <1>15, Stored
  <1>17. QED  BY <1>1, <1>9, <1>15, <1>16, Assigned

(* A statement that only decides changes no variable.                      *)
LEMMA Unchanged ==
  ASSUME IInv, range' = range, words' = words, overrun' = overrun, found' \in BOOLEAN
  PROVE  IInv' /\ Held' = Held
  <1>1. TypeOK'
    BY Zenon DEF IInv, TypeOK, Layout, Indexes, SetWords, Size
  <1>2. SetsAreClean'
    <2>1. ~overrun' /\ \A v \in Variables : Clean(range[v], words[v])
      BY DEF IInv, SetsAreClean
    <2>2. \A v \in Variables : Clean(range'[v], words'[v])
      BY <2>1, Zenon
    <2>3. QED  BY <2>1, <2>2, Zenon
             DEF SetsAreClean, Clean, Encode, Decode, WithOffsets, Indexes, SetWords, Size
  <1>3. words' = [v \in Variables |-> words'[v]]
    BY Zenon DEF IInv
  <1>4. Held' = Held
    BY Zenon DEF Held, Decode
  <1>5. QED  BY <1>1, <1>2, <1>3, <1>4 DEF IInv

LEMMA CompareStep ==
  ASSUME IInv, NEW s \in Comparisons, Compare(s)
  PROVE  IInv' /\ Pascal!Next
  <1>1. /\ s.op \in {"=", "<>", "<=", ">="}
        /\ s.left \in Variables /\ s.right \in Variables
        /\ "to" \notin DOMAIN s /\ s \in Statements
    BY DEF Comparisons, Statements
  <1>2. PICK u : u = Joint(s.left, s.right)
    OBVIOUS
  <1>3. RangeOk(u)
    BY <1>1, <1>2, JointOk
  <1>4. Converts(u, range[s.left]) /\ Converts(u, range[s.right])
    BY <1>2, Zenon DEF Compare
  <1>5. PICK S, T : S = Held[s.left] /\ T = Held[s.right]
    OBVIOUS
  <1>6. Operand(s.left, u) = Encode(u, S) /\ S \subseteq u.lo .. u.hi
    <2>1. PICK r, w : r = range[s.left] /\ w = words[s.left]
      OBVIOUS
    <2>2. RangeOk(r) /\ w \in Layout(r) /\ Clean(r, w) /\ Decode(r, w) = S
      BY <1>1, <1>5, <2>1, VariableOk
    <2>3. Cast(u, r, w) = Encode(u, Decode(r, w)) /\ Decode(r, w) \subseteq u.lo .. u.hi
      BY <1>3, <1>4, <2>1, <2>2, CastEncoded
    <2>4. QED  BY <2>1, <2>2, <2>3 DEF Operand
  <1>7. Operand(s.right, u) = Encode(u, T) /\ T \subseteq u.lo .. u.hi
    <2>1. PICK r, w : r = range[s.right] /\ w = words[s.right]
      OBVIOUS
    <2>2. RangeOk(r) /\ w \in Layout(r) /\ Clean(r, w) /\ Decode(r, w) = T
      BY <1>1, <1>5, <2>1, VariableOk
    <2>3. Cast(u, r, w) = Encode(u, Decode(r, w)) /\ Decode(r, w) \subseteq u.lo .. u.hi
      BY <1>3, <1>4, <2>1, <2>2, CastEncoded
    <2>4. QED  BY <2>1, <2>2, <2>3 DEF Operand
  <1>8. found' = SetComparison(s.op, Encode(u, S), Encode(u, T))
    <2>1. found' = SetComparison(s.op, Operand(s.left, u), Operand(s.right, u))
      BY <1>2, Zenon DEF Compare
    <2>2. QED  BY <1>6, <1>7, <2>1
  <1>9. Held[s.left] = S /\ Held[s.right] = T
    BY <1>5
  <1>11. found' = Pascal!Holds(s) /\ found' \in BOOLEAN
    <2>1. /\ SetEqual(Encode(u, S), Encode(u, T)) <=> S = T
          /\ SetContains(Encode(u, S), Encode(u, T)) <=> S \subseteq T
          /\ SetContains(Encode(u, T), Encode(u, S)) <=> T \subseteq S
      BY <1>3, <1>6, <1>7, ComparisonEncoded
    <2>2. CASE s.op = "="
      <3>1. found' = (S = T)
        BY <1>8, <2>1, <2>2 DEF SetComparison, SetEqual
      <3>2. Pascal!Holds(s) = (S = T)
        BY <1>9, <2>2 DEF Pascal!Holds, Held
      <3>3. QED  BY <3>1, <3>2
    <2>3. CASE s.op = "<>"
      <3>1. found' = (S # T)
        BY <1>8, <2>1, <2>3 DEF SetComparison, SetEqual
      <3>2. Pascal!Holds(s) = (S # T)
        BY <1>9, <2>3 DEF Pascal!Holds, Held
      <3>3. QED  BY <3>1, <3>2
    <2>4. CASE s.op = "<="
      <3>1. found' = (S \subseteq T)
        BY <1>8, <2>1, <2>4 DEF SetComparison, SetContains
      <3>2. Pascal!Holds(s) = (S \subseteq T)
        BY <1>9, <2>4 DEF Pascal!Holds, Held
      <3>3. QED  BY <3>1, <3>2
    <2>5. CASE s.op = ">="
      <3>1. found' = (T \subseteq S)
        BY <1>8, <2>1, <2>5 DEF SetComparison, SetContains
      <3>2. Pascal!Holds(s) = (T \subseteq S)
        BY <1>9, <2>5 DEF Pascal!Holds, Held
      <3>3. QED  BY <3>1, <3>2
    <2>6. QED  BY <1>1, <2>2, <2>3, <2>4, <2>5
  <1>12. /\ range' = range /\ words' = words /\ overrun' = overrun /\ last' = s
    BY DEF Compare
  <1>13. IInv' /\ Held' = Held
    BY <1>11, <1>12, Unchanged
  <1>14. QED  BY <1>1, <1>11, <1>12, <1>13, Decided

LEMMA TestStep ==
  ASSUME IInv, NEW s \in Tests, Test(s)
  PROVE  IInv' /\ Pascal!Next
  <1>1. /\ s.op = "in" /\ s.left \in Variables
        /\ "to" \notin DOMAIN s /\ s \in Statements
    BY DEF Tests, Statements
  <1>2. PICK r, w, x : r = range[s.left] /\ w = words[s.left] /\ x = s.element
    OBVIOUS
  <1>3. RangeOk(r) /\ Held[s.left] = Decode(r, w)
    BY <1>1, <1>2, VariableOk
  <1>4. x \in r.lo .. r.hi
    BY <1>2, Zenon DEF Test, Known
  <1>5. found' \in InSet(r, w, x)
    BY <1>2, Zenon DEF Test
  <1>6. found' = (x \in Held[s.left])
    BY <1>3, <1>4, <1>5, TestDecoded
  <1>7. Pascal!Holds(s) = (x \in Held[s.left])
    BY <1>1, <1>2 DEF Pascal!Holds, Held
  <1>8. found' \in BOOLEAN
    BY <1>6
  <1>9. /\ range' = range /\ words' = words /\ overrun' = overrun /\ last' = s
    BY DEF Test
  <1>10. IInv' /\ Held' = Held
    BY <1>8, <1>9, Unchanged
  <1>11. QED  BY <1>1, <1>6, <1>7, <1>9, <1>10, Decided

-----------------------------------------------------------------------------
(* The theorems, of programs that list only elements of the types.         *)

LEMMA Start ==
  ASSUME Init
  PROVE  IInv /\ Pascal!Init
  <1>1. range \in [Variables -> Ranges]
    BY DEF Init
  <1>2. words = [v \in Variables |-> Encode(range[v], {})]
    BY DEF Init
  <1>3. ASSUME NEW v \in Variables
        PROVE  /\ words[v] \in Layout(range[v])
               /\ Decode(range[v], words[v]) = {}
               /\ Clean(range[v], words[v])
    <2>1. PICK r \in Ranges : r = range[v]
      BY <1>1
    <2>2. RangeOk(r)
      BY RangesOk
    <2>3. PICK S : S = {}
      OBVIOUS
    <2>4. S \subseteq r.lo .. r.hi
      BY <2>3
    <2>5. words[v] = Encode(r, S)
      BY <1>2, <2>1, <2>3
    <2>6. QED  BY <2>1, <2>2, <2>3, <2>4, <2>5, EncodedClean
  <1>4. overrun = FALSE /\ found = FALSE /\ last = [op |-> "none"]
    BY DEF Init
  <1>5. TypeOK
    BY <1>1, <1>3, <1>4 DEF TypeOK
  <1>6. SetsAreClean
    BY <1>3, <1>4 DEF SetsAreClean
  <1>7. words = [v \in Variables |-> words[v]]
    BY <1>2
  <1>8. Held = [v \in Variables |-> {}]
    BY <1>3 DEF Held
  <1>9. Held = [v \in DOMAIN Held |-> {}]
    BY <1>8
  <1>10. Pascal!Init
    BY <1>4, <1>9 DEF Pascal!Init, Held
  <1>11. QED  BY <1>5, <1>6, <1>7, <1>10 DEF IInv

LEMMA Step ==
  ASSUME IInv, ListsFit = TRUE, [Next]_vars
  PROVE  IInv' /\ [Pascal!Next]_(Pascal!vars)
  <1>1. CASE Next
    <2>1. CASE \E s \in Lists : List(s)
      BY <2>1, ListStep
    <2>2. CASE \E s \in Copies : Copy(s)
      BY <2>2, CopyStep
    <2>3. CASE \E s \in Operations : Operate(s)
      BY <2>3, OperateStep
    <2>4. CASE \E s \in Comparisons : Compare(s)
      BY <2>4, CompareStep
    <2>5. CASE \E s \in Tests : Test(s)
      BY <2>5, TestStep
    <2>6. QED  BY <1>1, <2>1, <2>2, <2>3, <2>4, <2>5 DEF Next
  <1>2. CASE UNCHANGED vars
    <2>1. /\ range' = range /\ words' = words /\ overrun' = overrun
          /\ last' = last /\ found' = found
      BY <1>2 DEF vars
    <2>2. found' \in BOOLEAN
      BY <2>1 DEF IInv, TypeOK
    <2>3. IInv' /\ Held' = Held
      BY <2>1, <2>2, Unchanged
    <2>4. UNCHANGED Pascal!vars
      BY <2>1, <2>3 DEF Pascal!vars, Held
    <2>5. QED  BY <2>3, <2>4
  <1>3. QED  BY <1>1, <1>2

(* Every variable stays an array of as many words as its type has, and a   *)
(* condition is a truth value, even where TestSet is asked of an array     *)
(* it could look past.                                                     *)
THEOREM SetsKeepTheirTypes ==
  ASSUME ListsFit = TRUE
  PROVE  Spec => []TypeOK
  <1>1. Init => IInv
    BY Start
  <1>2. IInv /\ [Next]_vars => IInv'
    BY Step
  <1>3. IInv => TypeOK
    BY DEF IInv
  <1>4. QED  BY <1>1, <1>2, <1>3, PTL DEF Spec

(* AssignSet never stores past the end of the variable, and neither the    *)
(* constants of MakeConstantSetArray, the loops of SetExprAST, the shifts  *)
(* of ConvertSet nor the operators of set.c ever leave a bit that stands   *)
(* for no value of the type.                                               *)
THEOREM NoStrayBits ==
  ASSUME ListsFit = TRUE
  PROVE  Spec => []SetsAreClean
  <1>1. Init => IInv
    BY Start
  <1>2. IInv /\ [Next]_vars => IInv'
    BY Step
  <1>3. IInv => SetsAreClean
    BY DEF IInv
  <1>4. QED  BY <1>1, <1>2, <1>3, PTL DEF Spec

(* What SetExprAST, BinaryExprAST, TypeCastAST and set.c do with arrays of *)
(* words is what Pascal says of sets of values: the initial state is one   *)
(* of PascalSets, and every statement is the statement there.              *)
THEOREM SetsArePascalSets ==
  ASSUME ListsFit = TRUE
  PROVE  Spec => ImplementsPascalSets
  <1>1. Init => IInv /\ Pascal!Init
    BY Start
  <1>2. IInv /\ [Next]_vars => IInv' /\ [Pascal!Next]_(Pascal!vars)
    BY Step
  <1>3. QED  BY <1>1, <1>2, PTL DEF Spec, ImplementsPascalSets, Pascal!Spec
=============================================================================
