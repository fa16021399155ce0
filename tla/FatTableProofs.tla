---------------------------- MODULE FatTableProofs -----------------------------
(***************************************************************************)
(* What a set of an entry of the table does to it and to the others, for   *)
(* any size of a byte and of a sector.                                     *)
(*                                                                         *)
(* The argument: the bytes of an entry are the digits of one number, below *)
(* Limit(type). A set splits the number at Values(12) or Values(type),     *)
(* replaces one part, and writes the digits of what it gets.               *)
(***************************************************************************)
EXTENDS FatTable, Numbers

Byte == 0 .. Base - 1

\* The bytes of an entry, and the number they make.
Bytes(type, buf, c) == [k \in 0 .. 3 |-> buf[entry_offset(type, c) + k + 1]]
Number(type, d) ==
  d[0] + Base * (d[1] + IF type = 16 THEN 0
                        ELSE Base * (d[2] + IF type = 12 THEN 0 ELSE Base * d[3]))

\* The numbers that the bytes of an entry can hold are below this one.
Limit(type) ==
  Base * (Base * IF type = 16 THEN 1 ELSE Base * IF type = 12 THEN 1 ELSE Base)

-----------------------------------------------------------------------------
(* The bytes of an entry as a number.                                      *)

LEMMA BaseType == Base \in Nat \ {0} /\ Half \in Nat \ {0} /\ Half > 1
BY FatTableAssumption

LEMMA Shifting ==
  ASSUME NEW n \in Int
  PROVE  /\ Shifted(n, 0) = n /\ Shifted(n, 1) = n * Base
         /\ Shifted(n, 2) = n * (Base * Base) /\ Shifted(n, 3) = n * (Base * Base * Base)
BY BaseType DEF Shifted

LEMMA NumberBelow ==
  ASSUME NEW type \in FatTypes, NEW d, \A k \in 0 .. byte_per_entry(type) - 1 : d[k] \in Byte
  PROVE  Number(type, d) \in Nat /\ Number(type, d) < Limit(type)
<1> USE BaseType DEF Byte
<1>1. CASE type = 16
  <2>1. d[0] \in Byte /\ d[1] \in Byte
    BY <1>1 DEF byte_per_entry
  <2>2. Base * d[1] + d[0] \in Nat /\ Base * d[1] + d[0] < Base * Base
    BY <2>1, BelowProduct
  <2> QED BY <1>1, <2>1, <2>2 DEF Number, Limit
<1>2. CASE type = 12
  <2>1. d[0] \in Byte /\ d[1] \in Byte /\ d[2] \in Byte
    BY <1>2 DEF byte_per_entry
  <2> DEFINE e == Base * d[2] + d[1]
  <2>2. e \in Nat /\ e < Base * Base
    BY <2>1, BelowProduct
  <2>3. e \in 0 .. (Base * Base) - 1 /\ Base * Base \in Nat
    BY <2>2
  <2>4. Number(type, d) = Base * e + d[0]
    BY <1>2, <2>1 DEF Number
  <2>5. Limit(type) = Base * (Base * Base)
    BY <1>2 DEF Limit
  <2> HIDE DEF e
  <2> QED BY <2>1, <2>3, <2>4, <2>5, BelowProduct
<1>3. CASE type = 32
  <2>1. d[0] \in Byte /\ d[1] \in Byte /\ d[2] \in Byte /\ d[3] \in Byte
    BY <1>3 DEF byte_per_entry
  <2> DEFINE e == Base * d[3] + d[2]
             f == Base * e + d[1]
  <2>2. e \in Nat /\ e < Base * Base
    BY <2>1, BelowProduct
  <2>3. Number(type, d) = Base * f + d[0]
    BY <1>3, <2>1 DEF Number
  <2>4. e \in 0 .. (Base * Base) - 1 /\ Base * Base \in Nat
    BY <2>2
  <2> HIDE DEF e
  <2>5. f \in Nat /\ f < Base * (Base * Base) /\ Base * (Base * Base) \in Nat
    BY <2>1, <2>4, BelowProduct
  <2>6. f \in 0 .. (Base * (Base * Base)) - 1
    BY <2>5
  <2>7. Limit(type) = Base * (Base * (Base * Base))
    BY <1>3 DEF Limit
  <2> HIDE DEF f
  <2> QED BY <2>1, <2>3, <2>5, <2>6, <2>7, BelowProduct
<1> QED BY <1>1, <1>2, <1>3 DEF FatTypes

\* A number below the limit is made of its digits.
Digits(n) == [k \in 0 .. 3 |-> (n \div Shifted(1, k)) % Base]

LEMMA NumberOfDigits ==
  ASSUME NEW type \in FatTypes, NEW n \in Nat, n < Limit(type)
  PROVE  Number(type, Digits(n)) = n
<1> DEFINE p == n \div Base
           q == p \div Base
           r == q \div Base
           d == Digits(n)
<1> USE BaseType
<1>1. p \in Int /\ p >= 0 /\ n % Base \in 0 .. Base - 1 /\ n = Base * p + (n % Base)
  BY Quotient, n \in Int /\ n >= 0
<1> HIDE DEF p
<1>2. q \in Int /\ q >= 0 /\ p % Base \in 0 .. Base - 1 /\ p = Base * q + (p % Base)
  BY <1>1, Quotient
<1> HIDE DEF q
<1>3. r \in Int /\ r >= 0 /\ q % Base \in 0 .. Base - 1 /\ q = Base * r + (q % Base)
  BY <1>2, Quotient
<1>4. /\ n \div 1 = n
      /\ n \div (Base * Base) = q /\ n \div (Base * Base * Base) = r
  <2>1. n \div 1 = n
    OBVIOUS
  <2>2. n \div (Base * Base) = q
    BY TwoQuotients, n \in Int DEF p, q
  <2>3. n \div (Base * Base * Base) = (n \div (Base * Base)) \div Base
    BY TwoQuotients, n \in Int, Base * Base \in Nat \ {0}
  <2> QED BY <2>1, <2>2, <2>3
<1> HIDE DEF r
<1>5. /\ d[0] = n % Base /\ d[1] = p % Base
      /\ d[2] = q % Base /\ d[3] = r % Base
  <2>1. Shifted(1, 0) = 1 /\ Shifted(1, 1) = Base
        /\ Shifted(1, 2) = Base * Base /\ Shifted(1, 3) = Base * Base * Base
    BY DEF Shifted
  <2> QED BY <1>4, <2>1 DEF Digits, p
<1> HIDE DEF d
<1>6. p \in Nat /\ q \in Nat /\ r \in Nat
  BY <1>1, <1>2, <1>3
<1>7. CASE type = 16
  <2>1. n < Base * Base
    BY <1>7 DEF Limit
  <2>2. p \in 0 .. Base - 1
    BY <2>1, QuotientBelow DEF p
  <2>3. p % Base = p
    BY <2>2
  <2> QED BY <1>1, <1>5, <1>7, <2>3 DEF Number, d
<1>8. CASE type = 12
  <2>1. n < Base * (Base * Base) /\ Base * Base \in Nat
    BY <1>8 DEF Limit
  <2>2. p < Base * Base
    BY <2>1, QuotientBelow DEF p
  <2>3. q \in 0 .. Base - 1
    BY <1>6, <2>2, QuotientBelow DEF q
  <2>4. q % Base = q
    BY <2>3
  <2>5. Number(type, d) = (n % Base) + Base * ((p % Base) + Base * q)
    <3>1. Number(type, d) = d[0] + Base * (d[1] + Base * (d[2] + 0))
      BY ONLY <1>8 DEF Number
    <3>2. d[0] = n % Base /\ d[1] = p % Base /\ d[2] + 0 = q
      BY <1>5, <1>6, <2>4
    <3> QED BY ONLY <3>1, <3>2
  <2>6. (p % Base) + Base * q = p
    BY <1>2
  <2> QED BY <1>1, <2>5, <2>6 DEF d
<1>9. CASE type = 32
  <2>1. n < Base * (Base * (Base * Base)) /\ Base * Base \in Nat /\ Base * (Base * Base) \in Nat
    BY <1>9 DEF Limit
  <2>2. p < Base * (Base * Base)
    BY <2>1, QuotientBelow DEF p
  <2>3. q < Base * Base
    BY <1>6, <2>1, <2>2, QuotientBelow DEF q
  <2>4. r \in 0 .. Base - 1
    BY <1>6, <2>3, QuotientBelow DEF r
  <2>5. r % Base = r
    BY <2>4
  <2>6. Number(type, d) = (n % Base) + Base * ((p % Base) + Base * ((q % Base) + Base * r))
    <3>1. Number(type, d) = d[0] + Base * (d[1] + Base * (d[2] + Base * d[3]))
      BY ONLY <1>9 DEF Number
    <3>2. d[0] = n % Base /\ d[1] = p % Base /\ d[2] = q % Base /\ d[3] = r
      BY <1>5, <2>5
    <3> QED BY ONLY <3>1, <3>2
  <2>7. (q % Base) + Base * r = q /\ (p % Base) + Base * q = p
    BY <1>2, <1>3
  <2> QED BY <1>1, <2>6, <2>7 DEF d
<1> QED BY <1>7, <1>8, <1>9 DEF FatTypes, d

LEMMA EntryValue ==
  ASSUME NEW type \in FatTypes, NEW buf, NEW c \in Nat,
         \A k \in 0 .. byte_per_entry(type) - 1 : buf[entry_offset(type, c) + k + 1] \in Byte
  PROVE  entry_val(type, buf, c) = Number(type, Bytes(type, buf, c))
<1> DEFINE d == Bytes(type, buf, c)
           Part(k) == IF k < byte_per_entry(type)
                      THEN Shifted(buf[entry_offset(type, c) + k + 1], k) ELSE 0
<1>1. \A k \in 0 .. byte_per_entry(type) - 1 :
        d[k] = buf[entry_offset(type, c) + k + 1] /\ d[k] \in Int
  BY BaseType DEF Bytes, Byte, byte_per_entry, FatTypes
<1>2. entry_val(type, buf, c) = Part(0) + Part(1) + Part(2) + Part(3)
  BY DEF entry_val
<1> HIDE DEF d
<1>3. \A k \in 0 .. byte_per_entry(type) - 1 : Part(k) = Shifted(d[k], k)
  BY <1>1 DEF byte_per_entry, FatTypes
<1>4. \A k \in 0 .. 3 : k >= byte_per_entry(type) => Part(k) = 0
  BY DEF byte_per_entry, FatTypes
<1> HIDE DEF Part
<1>5. CASE type = 16
  <2>1. d[0] \in Int /\ d[1] \in Int /\ Part(0) = Shifted(d[0], 0) /\ Part(1) = Shifted(d[1], 1)
        /\ Part(2) = 0 /\ Part(3) = 0
    BY <1>1, <1>3, <1>4, <1>5 DEF byte_per_entry
  <2>2. Number(type, d) = d[0] + Base * (d[1] + 0)
    BY <1>5 DEF Number
  <2> QED BY <1>2, <2>1, <2>2, Shifting, BaseType DEF d
<1>6. CASE type = 12
  <2>1. d[0] \in Int /\ d[1] \in Int /\ d[2] \in Int /\ Part(0) = Shifted(d[0], 0)
        /\ Part(1) = Shifted(d[1], 1) /\ Part(2) = Shifted(d[2], 2) /\ Part(3) = 0
    BY <1>1, <1>3, <1>4, <1>6 DEF byte_per_entry
  <2>2. Number(type, d) = d[0] + Base * (d[1] + Base * (d[2] + 0))
    BY <1>6 DEF Number
  <2>3. Number(type, d) = d[0] + d[1] * Base + d[2] * (Base * Base)
    BY <2>1, <2>2, BaseType
  <2>4. Part(0) = d[0] /\ Part(1) = d[1] * Base /\ Part(2) = d[2] * (Base * Base)
    BY <2>1, Shifting
  <2>5. d[2] * (Base * Base) \in Int /\ d[1] * Base \in Int
    BY <2>1, BaseType
  <2> QED BY <1>2, <2>1, <2>3, <2>4, <2>5 DEF d
<1>7. CASE type = 32
  <2>1. d[0] \in Int /\ d[1] \in Int /\ d[2] \in Int /\ d[3] \in Int /\ Part(0) = Shifted(d[0], 0)
        /\ Part(1) = Shifted(d[1], 1) /\ Part(2) = Shifted(d[2], 2) /\ Part(3) = Shifted(d[3], 3)
    BY <1>1, <1>3, <1>4, <1>7 DEF byte_per_entry
  <2>2. Number(type, d) = d[0] + Base * (d[1] + Base * (d[2] + Base * d[3]))
    BY <1>7 DEF Number
  <2>3. Number(type, d) = d[0] + d[1] * Base + d[2] * (Base * Base) + d[3] * (Base * Base * Base)
    BY <2>1, <2>2, BaseType
  <2>4. /\ Part(0) = d[0] /\ Part(1) = d[1] * Base
        /\ Part(2) = d[2] * (Base * Base) /\ Part(3) = d[3] * (Base * Base * Base)
    BY <2>1, Shifting
  <2> QED BY <1>2, <2>3, <2>4 DEF d
<1> QED BY <1>5, <1>6, <1>7 DEF FatTypes

-----------------------------------------------------------------------------
(* The number split in two.                                                *)

Values12 == Base * Half
Rest(type) == IF type = 12 THEN Values12 ELSE IF type = 16 THEN 1 ELSE Half

LEMMA LimitSplit ==
  ASSUME NEW type \in FatTypes
  PROVE  /\ Values(type) \in Nat \ {0} /\ Rest(type) \in Nat \ {0}
         /\ Limit(type) = Values(type) * Rest(type)
<1> USE BaseType
<1>0. Base = Half * Half
  BY FatTableAssumption
<1>1. CASE type = 16
  BY <1>1 DEF Values, Rest, Limit
<1>2. CASE type = 12
  <2>1. (Base * Half) * (Base * Half) = Base * (Base * (Half * Half))
    OBVIOUS
  <2> QED BY <1>0, <1>2, <2>1 DEF Values, Rest, Limit, Values12
<1>3. CASE type = 32
  <2>1. ((Base * Base * Base) * Half) * Half = Base * (Base * (Base * (Half * Half)))
    OBVIOUS
  <2> QED BY <1>0, <1>3, <2>1 DEF Values, Rest, Limit
<1> QED BY <1>1, <1>2, <1>3 DEF FatTypes

\* The number of the bytes after a set.
NewNumber(type, c, v, old) ==
  IF High(type, c) THEN (old % Values(12)) + (v % Values(12)) * Values(12)
  ELSE (old - (old % Values(type))) + (v % Values(type))

LEMMA NewParts ==
  ASSUME NEW type \in FatTypes, NEW c \in Nat, NEW v \in Int,
         NEW old \in Nat, old < Limit(type)
  PROVE  LET new == NewNumber(type, c, v, old)
             w   == Values(type)
         IN /\ new \in Nat /\ new < Limit(type)
            /\ High(type, c) => type = 12 /\ new \div w = v % w /\ new % w = old % w
            /\ ~High(type, c) => new % w = v % w /\ new \div w = old \div w
<1> DEFINE w == Values(type)
           new == NewNumber(type, c, v, old)
           h == old \div w
           l == old % w
           x == v % w
<1>1. w \in Nat \ {0} /\ Limit(type) = w * Rest(type) /\ Rest(type) \in Nat \ {0}
  BY LimitSplit
<1> HIDE DEF w
<1>2. h \in 0 .. Rest(type) - 1
  BY <1>1, QuotientBelow
<1>3. h \in Int /\ l \in 0 .. w - 1 /\ old = w * h + l
  BY <1>1, Quotient, old \in Int
<1>4. x \in 0 .. w - 1
  BY <1>1
<1>5. type = 12 => Values(12) = w /\ Rest(type) = w
  BY DEF w, Values, Rest, Values12
<1> HIDE DEF h, l, x
<1>6. CASE High(type, c)
  <2>1. type = 12
    BY <1>6 DEF High
  <2>2. new = w * x + l
    BY <1>4, <1>1, <1>3, <1>5, <1>6, <2>1 DEF NewNumber, l, x
  <2>3. w * x + l \in Nat /\ w * x + l < w * w
    BY <1>1, <1>3, <1>4, BelowProduct
  <2>4. (w * x + l) \div w = x /\ (w * x + l) % w = l
    BY <1>1, <1>3, <1>4, x \in Int, QuotientUnique
  <2> QED BY <1>1, <1>5, <1>6, <2>1, <2>2, <2>3, <2>4 DEF x, l, w
<1>7. CASE ~High(type, c)
  <2>1. new = w * h + x
    <3>1. new = (old - l) + x
      BY <1>7 DEF NewNumber, l, x, w
    <3> QED BY <1>1, <1>3, <1>4, <3>1
  <2>2. w * h + x \in Nat /\ w * h + x < w * Rest(type)
    BY <1>1, <1>2, <1>4, BelowProduct
  <2>3. (w * h + x) \div w = h /\ (w * h + x) % w = x
    BY <1>1, <1>3, <1>4, QuotientUnique
  <2> QED BY <1>1, <1>5, <1>7, <2>1, <2>2, <2>3 DEF x, h, w
<1> QED BY <1>6, <1>7

-----------------------------------------------------------------------------
(* The bytes of an entry in its sector.                                    *)

\* Entries do not cross the end of the sector, and those of two places do not overlap.
LEMMA InSector ==
  ASSUME NEW type \in FatTypes, NEW c \in Nat
  PROVE  /\ entry_offset(type, c) \in Nat
         /\ entry_offset(type, c) + byte_per_entry(type) <= SectorSize
         /\ \E e \in Nat : entry_offset(type, c) = byte_per_entry(type) * e
<1> DEFINE b == byte_per_entry(type)
           m == SectorSize \div b
           e == entry_no(type, c) % m
<1>1. b \in 2 .. 4 /\ SectorSize \in Nat /\ SectorSize >= 4
  BY FatTableAssumption DEF byte_per_entry, FatTypes
<1>2. entry_no(type, c) \in Nat
  BY DEF entry_no
<1>3. entry_offset(type, c) = e * b
  BY DEF entry_offset
<1> HIDE DEF b
<1>4. m \in Int /\ m >= 0 /\ SectorSize % b \in 0 .. b - 1 /\ SectorSize = b * m + (SectorSize % b)
  BY <1>1, Quotient
<1> HIDE DEF m
<1>5. m > 0
  <2>1. m = 0 => b * m = 0
    BY <1>1
  <2> QED BY <1>1, <1>4, <2>1
<1>6. e \in 0 .. m - 1
  BY <1>2, <1>4, <1>5
<1> HIDE DEF e
<1>7. b * (e + 1) <= b * m /\ b * (e + 1) = b * e + b /\ b * e \in Nat /\ b * m \in Int
  BY <1>1, <1>4, <1>6, TimesGrows
<1> QED BY <1>1, <1>3, <1>4, <1>6, <1>7 DEF b

LEMMA Apart ==
  ASSUME NEW type \in FatTypes, NEW c \in Nat, NEW d \in Nat,
         entry_offset(type, c) # entry_offset(type, d)
  PROVE  \/ entry_offset(type, c) + byte_per_entry(type) <= entry_offset(type, d)
         \/ entry_offset(type, d) + byte_per_entry(type) <= entry_offset(type, c)
<1> DEFINE b == byte_per_entry(type)
<1>1. PICK e \in Nat : entry_offset(type, c) = b * e
  BY InSector
<1>2. PICK f \in Nat : entry_offset(type, d) = b * f
  BY InSector
<1>3. b \in Nat
  BY DEF byte_per_entry, FatTypes
<1> HIDE DEF b
<1>4. CASE e + 1 <= f
  <2>1. b * (e + 1) <= b * f /\ b * (e + 1) = b * e + b
    BY <1>3, <1>4, TimesGrows
  <2> QED BY <1>1, <1>2, <2>1 DEF b
<1>5. CASE f + 1 <= e
  <2>1. b * (f + 1) <= b * e /\ b * (f + 1) = b * f + b
    BY <1>3, <1>5, TimesGrows
  <2> QED BY <1>1, <1>2, <2>1 DEF b
<1> QED BY <1>1, <1>2, <1>4, <1>5

LEMMA NumberSame ==
  ASSUME NEW type \in FatTypes, NEW d, NEW e, \A k \in 0 .. byte_per_entry(type) - 1 : d[k] = e[k]
  PROVE  Number(type, d) = Number(type, e)
<1>1. byte_per_entry(type) \in 2 .. 4 /\ d[0] = e[0] /\ d[1] = e[1]
  BY DEF byte_per_entry, FatTypes
<1>2. type # 16 => d[2] = e[2]
  BY DEF byte_per_entry, FatTypes
<1>3. type = 32 => d[3] = e[3]
  BY DEF byte_per_entry, FatTypes
<1> QED BY <1>1, <1>2, <1>3, Zenon DEF Number, FatTypes

Buffers == {buf \in Seq(Byte) : Len(buf) >= SectorSize}

LEMMA BufferType ==
  ASSUME NEW buf \in Buffers
  PROVE  /\ buf \in Seq(Byte) /\ Len(buf) \in Nat /\ DOMAIN buf = 1 .. Len(buf)
         /\ Len(buf) >= SectorSize /\ \A n \in 1 .. Len(buf) : buf[n] \in Byte
BY DEF Buffers

LEMMA EntrySize ==
  ASSUME NEW type \in FatTypes
  PROVE  byte_per_entry(type) \in 2 .. 4 /\ SectorSize \in Nat
BY FatTableAssumption DEF byte_per_entry, FatTypes

\* The bytes of an entry are in the buffer.
LEMMA BytesRead ==
  ASSUME NEW type \in FatTypes, NEW buf \in Buffers, NEW c \in Nat
  PROVE  /\ \A k \in 0 .. byte_per_entry(type) - 1 :
              /\ entry_offset(type, c) + k + 1 \in 1 .. Len(buf)
              /\ buf[entry_offset(type, c) + k + 1] \in Byte
              /\ Bytes(type, buf, c)[k] = buf[entry_offset(type, c) + k + 1]
         /\ entry_val(type, buf, c) = Number(type, Bytes(type, buf, c))
         /\ entry_val(type, buf, c) \in Nat /\ entry_val(type, buf, c) < Limit(type)
<1>1. /\ byte_per_entry(type) \in 2 .. 4 /\ SectorSize \in Nat
      /\ entry_offset(type, c) \in Nat
      /\ entry_offset(type, c) + byte_per_entry(type) <= SectorSize
  BY EntrySize, InSector
<1>2. ASSUME NEW k \in 0 .. byte_per_entry(type) - 1
      PROVE  /\ entry_offset(type, c) + k + 1 \in 1 .. Len(buf)
             /\ buf[entry_offset(type, c) + k + 1] \in Byte
             /\ Bytes(type, buf, c)[k] = buf[entry_offset(type, c) + k + 1]
  <2>1. entry_offset(type, c) + k + 1 \in 1 .. Len(buf)
    BY <1>1, BufferType
  <2>2. k \in 0 .. 3
    BY <1>1
  <2> QED BY <2>1, <2>2, BufferType DEF Bytes
<1>3. entry_val(type, buf, c) = Number(type, Bytes(type, buf, c))
  BY <1>2, EntryValue
<1>4. \A k \in 0 .. byte_per_entry(type) - 1 : Bytes(type, buf, c)[k] \in Byte
  BY <1>2
<1> QED BY <1>2, <1>3, <1>4, NumberBelow

\* What a set does to the bytes.
LEMMA BytesSet ==
  ASSUME NEW type \in FatTypes, NEW buf \in Buffers, NEW c \in Nat, NEW v \in Int
  PROVE  LET set == SetEntry(type, buf, c, v)
             new == NewNumber(type, c, v, entry_val(type, buf, c))
             at  == entry_offset(type, c)
         IN /\ set \in Buffers /\ Len(set) = Len(buf)
            /\ \A k \in 0 .. byte_per_entry(type) - 1 : set[at + k + 1] = Digits(new)[k]
            /\ \A n \in 1 .. Len(buf) \ (at + 1 .. at + byte_per_entry(type)) : set[n] = buf[n]
<1> DEFINE set == SetEntry(type, buf, c, v)
           new == NewNumber(type, c, v, entry_val(type, buf, c))
           at  == entry_offset(type, c)
           b   == byte_per_entry(type)
<1>1. b \in 2 .. 4 /\ at \in Nat /\ buf \in Seq(Byte) /\ Len(buf) \in Nat
      /\ DOMAIN buf = 1 .. Len(buf) /\ at + b <= Len(buf) /\ Len(buf) >= SectorSize
  <2>1. at \in Nat /\ at + b <= SectorSize /\ b \in 2 .. 4 /\ SectorSize \in Nat
    BY InSector, EntrySize
  <2> QED BY <2>1, BufferType
<1>2. new \in Nat
  BY BytesRead, NewParts
<1>3. set = [n \in 1 .. Len(buf) |-> IF n \in at + 1 .. at + b
                                     THEN (new \div Shifted(1, n - at - 1)) % Base ELSE buf[n]]
  BY <1>1 DEF SetEntry, NewNumber
<1> HIDE DEF set, new, at, b
<1>4. ASSUME NEW n \in at + 1 .. at + b
      PROVE  (new \div Shifted(1, n - at - 1)) % Base \in Byte
  <2>1. n - at - 1 \in 0 .. 3
    BY <1>1
  <2>2. Shifted(1, n - at - 1) \in Nat \ {0}
    BY <2>1, BaseType DEF Shifted
  <2>3. new \div Shifted(1, n - at - 1) \in Int
    BY <1>2, <2>2
  <2> QED BY <2>3, BaseType DEF Byte
<1>5. \A n \in 1 .. Len(buf) : set[n] \in Byte
  BY <1>1, <1>3, <1>4, BufferType
<1>6. set \in Seq(Byte) /\ Len(set) = Len(buf)
  BY <1>1, <1>3, <1>5
<1>7. ASSUME NEW k \in 0 .. b - 1
      PROVE  set[at + k + 1] = Digits(new)[k]
  <2>1. at + k + 1 \in 1 .. Len(buf) /\ at + k + 1 \in at + 1 .. at + b /\ (at + k + 1) - at - 1 = k
        /\ k \in 0 .. 3
    BY <1>1
  <2> QED BY <1>3, <2>1 DEF Digits
<1>8. \A n \in 1 .. Len(buf) \ (at + 1 .. at + b) : set[n] = buf[n]
  BY <1>3
<1> QED BY <1>6, <1>7, <1>8 DEF set, new, at, b, Buffers

-----------------------------------------------------------------------------
(* Theorems.                                                               *)

\* set_fat_cluster, then fat_next_cluster on the same entry: the value set comes back, cut to
\* the width of an entry.
THEOREM Set_Then_Get ==
  ASSUME NEW type \in FatTypes, NEW buf \in Buffers, NEW c \in Nat, NEW v \in Int
  PROVE  Entry(type, SetEntry(type, buf, c, v), c) = v % Values(type)
<1> DEFINE set == SetEntry(type, buf, c, v)
           new == NewNumber(type, c, v, entry_val(type, buf, c))
<1>1. set \in Buffers
      /\ \A k \in 0 .. byte_per_entry(type) - 1 :
           set[entry_offset(type, c) + k + 1] = Digits(new)[k]
  BY BytesSet
<1>2. new \in Nat /\ new < Limit(type)
  BY BytesRead, NewParts
<1> HIDE DEF set, new
<1>3. entry_val(type, set, c) = new
  <2>1. \A k \in 0 .. byte_per_entry(type) - 1 : Bytes(type, set, c)[k] = Digits(new)[k]
    BY <1>1, BytesRead
  <2>2. Number(type, Bytes(type, set, c)) = Number(type, Digits(new))
    BY <2>1, NumberSame
  <2> QED BY <1>1, <1>2, <2>2, BytesRead, NumberOfDigits
<1>4. CASE High(type, c)
  <2>1. type = 12
    BY <1>4 DEF High
  <2>2. new \div Values(12) = v % Values(12)
    BY <1>4, <2>1, BytesRead, NewParts DEF new
  <2> QED BY <1>3, <1>4, <2>1, <2>2 DEF Entry, set
<1>5. CASE ~High(type, c)
  <2>1. new % Values(type) = v % Values(type)
    BY <1>5, BytesRead, NewParts DEF new
  <2> QED BY <1>3, <1>5, <2>1 DEF Entry, set
<1> QED BY <1>4, <1>5

\* set_fat_cluster keeps every other entry of the sectors it has read: those in other bytes, and
\* in FAT12 the one that shares its bytes.
THEOREM Set_Keeps ==
  ASSUME NEW type \in FatTypes, NEW buf \in Buffers, NEW c \in Nat, NEW d \in Nat, NEW v \in Int,
         ~(entry_offset(type, c) = entry_offset(type, d) /\ High(type, c) = High(type, d))
  PROVE  Entry(type, SetEntry(type, buf, c, v), d) = Entry(type, buf, d)
<1> DEFINE set == SetEntry(type, buf, c, v)
           new == NewNumber(type, c, v, entry_val(type, buf, c))
           b   == byte_per_entry(type)
<1>1. /\ set \in Buffers
      /\ \A k \in 0 .. b - 1 : set[entry_offset(type, c) + k + 1] = Digits(new)[k]
      /\ \A n \in 1 .. Len(buf) \ (entry_offset(type, c) + 1 .. entry_offset(type, c) + b) :
           set[n] = buf[n]
  BY BytesSet
<1>2. new \in Nat /\ new < Limit(type)
  BY BytesRead, NewParts
<1> HIDE DEF set, new
<1>0. \A k \in 0 .. b - 1 :
        /\ Bytes(type, set, d)[k] = set[entry_offset(type, d) + k + 1]
        /\ Bytes(type, buf, d)[k] = buf[entry_offset(type, d) + k + 1]
        /\ entry_offset(type, d) + k + 1 \in 1 .. Len(buf)
  <2>1. set \in Buffers
    BY <1>1
  <2> QED BY <2>1, BytesRead
<1>3. CASE entry_offset(type, c) = entry_offset(type, d)
  <2>1. entry_val(type, set, d) = new
    <3>1. \A k \in 0 .. b - 1 : Bytes(type, set, d)[k] = Digits(new)[k]
      BY <1>0, <1>1, <1>3
    <3>2. Number(type, Bytes(type, set, d)) = Number(type, Digits(new))
      BY <3>1, NumberSame
    <3> QED BY <1>1, <1>2, <3>2, BytesRead, NumberOfDigits
  <2>2. entry_val(type, buf, d) = entry_val(type, buf, c)
    BY <1>3 DEF entry_val
  <2>3. High(type, c) # High(type, d)
    BY <1>3
  <2>4. type = 12
    BY <2>3 DEF High
  <2>5. LET w == Values(type)
        IN /\ High(type, c) => new % w = entry_val(type, buf, c) % w
           /\ ~High(type, c) => new \div w = entry_val(type, buf, c) \div w
    BY BytesRead, NewParts DEF new
  <2> QED BY <2>1, <2>2, <2>3, <2>4, <2>5, Zenon DEF Entry, set, High
<1>4. CASE entry_offset(type, c) # entry_offset(type, d)
  <2>1. ASSUME NEW k \in 0 .. b - 1
        PROVE  Bytes(type, set, d)[k] = Bytes(type, buf, d)[k]
    <3>1. entry_offset(type, d) + k + 1 \in 1 .. Len(buf)
      BY <1>0
    <3>2. entry_offset(type, d) + k + 1
            \notin entry_offset(type, c) + 1 .. entry_offset(type, c) + b
      <4>1. entry_offset(type, c) \in Nat /\ entry_offset(type, d) \in Nat /\ b \in Nat
        BY InSector, EntrySize
      <4> QED BY <1>4, <4>1, Apart
    <3> QED BY <1>0, <1>1, <3>1, <3>2
  <2>2. entry_val(type, set, d) = entry_val(type, buf, d)
    <3>1. Number(type, Bytes(type, set, d)) = Number(type, Bytes(type, buf, d))
      BY <2>1, NumberSame
    <3>2. set \in Buffers
      BY <1>1
    <3> QED BY <3>1, <3>2, BytesRead
  <2> QED BY <2>2 DEF Entry, set
<1> QED BY <1>3, <1>4
================================================================================
