------------------------- MODULE DatabusToAXI_proofs -------------------------
(***************************************************************************)
(* The two sides between the databus and AXI, for every width of the bus,   *)
(* longest burst, page, and set of reads and of writes the controllers cut  *)
(* right (ReadFits, WriteFits).                                             *)
(*                                                                         *)
(* Reads.  Got words have come since the read began, the memory has pending *)
(* more of the burst under way, and unless that is the last burst the       *)
(* controller stands at the word behind it with the bytes that are left     *)
(* (Covered).  The last burst is as long as the words that hold the bytes   *)
(* left, so the beats of a read are BusWords in all.  BurstAlign holds back *)
(* one word, which makes the words handed over either as many as came or    *)
(* one fewer: symbolsToRead_o of them in either case, the last with the     *)
(* last beat or with the flush behind it.                                   *)
(*                                                                         *)
(* Writes.  A burst starts with the g-th word of the request, at its first  *)
(* byte or at the start of a word (StandsAt), and covers n of the bytes     *)
(* left (CutAt): its beats are those that hold them, all full but the first *)
(* and the last, and what is left is a write the module cuts right.  So the *)
(* strobes of each beat are the lanes of the burst's own bytes (BeatLanes)  *)
(* and the bytes written follow each other.                                 *)
(*                                                                         *)
(* The same facts say that each burst alone is one AxiTransfer allows.      *)
(***************************************************************************)
EXTENDS SimpleAXIToAXIRead, SimpleAXIToAXIWrite2, AxiBursts, FiniteSetTheorems, TLAPS

\* The few widths of a bus and lengths of a burst (iob_versat.py:331).
LEMMA Widths ==
  /\ STROBE_W \in {4, 8, 16, 32, 64}
  /\ MaxBeats \in {2, 4, 8, 16, 32, 64, 128, 256}
<1>1. STROBE_W \in {4, 8, 16, 32, 64}
  BY BusAssumption
<1>2. AXI_LEN_W \in {1, 2, 3, 4, 5, 6, 7, 8}
  BY BusAssumption
<1>3. 2^1 = 2 /\ 2^2 = 4 /\ 2^3 = 8 /\ 2^4 = 16 /\ 2^5 = 32 /\ 2^6 = 64 /\ 2^7 = 128 /\ 2^8 = 256
  OBVIOUS
<1>4. 2^AXI_LEN_W \in {2^1, 2^2, 2^3, 2^4, 2^5, 2^6, 2^7, 2^8}
  BY <1>2, Zenon
<1>5. QED BY <1>1, <1>3, <1>4 DEF MaxBeats

\* Words that hold x bytes.
Ceil(x) == (x + STROBE_W - 1) \div STROBE_W

\* They are the least number of words that do.
LEMMA CeilIs ==
  ASSUME NEW x \in Nat
  PROVE  /\ Ceil(x) \in Nat
         /\ x <= STROBE_W * Ceil(x)
         /\ x > 0 => Ceil(x) > 0
         /\ STROBE_W * Ceil(x) < x + STROBE_W
<1>1. CASE STROBE_W = 4 BY <1>1 DEF Ceil
<1>2. CASE STROBE_W = 8 BY <1>2 DEF Ceil
<1>3. CASE STROBE_W = 16 BY <1>3 DEF Ceil
<1>4. CASE STROBE_W = 32 BY <1>4 DEF Ceil
<1>5. CASE STROBE_W = 64 BY <1>5 DEF Ceil
<1>6. QED BY <1>1, <1>2, <1>3, <1>4, <1>5, Widths

\* No other number does.
LEMMA CeilUnique ==
  ASSUME NEW x \in Nat, NEW n \in Nat, x <= STROBE_W * n, STROBE_W * n < x + STROBE_W
  PROVE  Ceil(x) = n
<1>1. CASE STROBE_W = 4 BY <1>1 DEF Ceil
<1>2. CASE STROBE_W = 8 BY <1>2 DEF Ceil
<1>3. CASE STROBE_W = 16 BY <1>3 DEF Ceil
<1>4. CASE STROBE_W = 32 BY <1>4 DEF Ceil
<1>5. CASE STROBE_W = 64 BY <1>5 DEF Ceil
<1>6. QED BY <1>1, <1>2, <1>3, <1>4, <1>5, Widths

\* The bytes of a page make up whole words.
LEMMA PageIs == \E p \in Nat \ {0} : Page = STROBE_W * p
<1>1. CASE STROBE_W = 4 BY <1>1, BusAssumption
<1>2. CASE STROBE_W = 8 BY <1>2, BusAssumption
<1>3. CASE STROBE_W = 16 BY <1>3, BusAssumption
<1>4. CASE STROBE_W = 32 BY <1>4, BusAssumption
<1>5. CASE STROBE_W = 64 BY <1>5, BusAssumption
<1>6. QED BY <1>1, <1>2, <1>3, <1>4, <1>5, Widths

\* What is left over.
LEMMA Remainder ==
  ASSUME NEW h \in Nat \ {0}, NEW q \in Nat, NEW r \in 0 .. h - 1
  PROVE  (h * q + r) % h = r
OBVIOUS

\* How far a byte of word k is from the end of its page.
LEMMA PagePlace ==
  ASSUME NEW k \in Nat, NEW d \in 0 .. STROBE_W - 1
  PROVE  \E c \in Nat \ {0} :
           /\ Page - ((STROBE_W * k) % Page) = STROBE_W * c
           /\ (STROBE_W * k + d) % Page = Page - STROBE_W * c + d
<1>1. PICK p \in Nat \ {0} : Page = STROBE_W * p
  BY PageIs
<1>2. PICK q \in Nat, r \in 0 .. p - 1 : k = p * q + r
  <2>1. k = p * (k \div p) + (k % p) /\ k \div p \in Nat /\ k % p \in 0 .. p - 1
    OBVIOUS
  <2>2. QED BY <2>1
<1>3. PICK y : y = STROBE_W * r
  OBVIOUS
<1>4. STROBE_W * k = Page * q + y
  BY <1>1, <1>2, <1>3, Widths
<1>5. y \in Nat /\ y + STROBE_W <= Page
  <2>1. CASE STROBE_W = 4 BY <1>1, <1>2, <1>3, <2>1
  <2>2. CASE STROBE_W = 8 BY <1>1, <1>2, <1>3, <2>2
  <2>3. CASE STROBE_W = 16 BY <1>1, <1>2, <1>3, <2>3
  <2>4. CASE STROBE_W = 32 BY <1>1, <1>2, <1>3, <2>4
  <2>5. CASE STROBE_W = 64 BY <1>1, <1>2, <1>3, <2>5
  <2>6. QED BY <2>1, <2>2, <2>3, <2>4, <2>5, Widths
<1>6. (Page * q + y) % Page = y /\ (Page * q + (y + d)) % Page = y + d
  <2>1. y \in 0 .. Page - 1 /\ y + d \in 0 .. Page - 1
    BY <1>5, Widths, BusAssumption
  <2>2. (Page * q + y) % Page = y
    <3>1. Page \in Nat \ {0}
      BY BusAssumption
    <3>2. QED BY <1>2, <2>1, <3>1, Remainder
  <2>3. PICK z : z = y + d
    OBVIOUS
  <2>4. (Page * q + z) % Page = z
    BY <1>2, <2>1, <2>3, Remainder, BusAssumption
  <2>5. QED BY <2>2, <2>3, <2>4
<1>7. Page - y = STROBE_W * (p - r) /\ p - r \in Nat \ {0}
  BY <1>1, <1>2, <1>3, Widths
<1>8. STROBE_W * k + d = Page * q + (y + d)
  <2>1. Page * q \in Nat
    BY <1>2, BusAssumption
  <2>2. QED BY <1>4, <1>5, <2>1, Widths
<1>9. Page - STROBE_W * (p - r) + d = y + d
  BY <1>5, <1>7, Widths, BusAssumption
<1>10. QED BY <1>4, <1>6, <1>7, <1>8, <1>9

-----------------------------------------------------------------------------
(* The bursts a read is cut into.                                           *)

\* The bus word with the first byte of the request.
FirstWord == address_i \div STROBE_W

\* The bus words that hold the bytes of the request.
BusWords == Ceil(offset + length_i)

\* The caller's request is one the controller cuts right.
Asked ==
  /\ address_i \in Nat /\ length_i \in Nat \ {0}
  /\ ReadFits(<<address_i, length_i>>)

\* The controller when g words are covered and some bytes are not.
Covered(g) ==
  /\ stored_len \in Nat \ {0}
  /\ stored_len = length_i - STROBE_W * g
  /\ g > 0 => offset = 0
  /\ first_i_transfer <=> g = 0
  /\ true_axi_axaddr_o = STROBE_W * (FirstWord + g)

\* The beats of a last burst that starts o bytes into a word.
LEMMA LastLength ==
  ASSUME NEW o \in 0 .. STROBE_W - 1, offset = o, NEW n \in 1 .. MaxBeats,
         stored_len \in Nat \ {0}, o + stored_len <= STROBE_W * n
  PROVE  /\ Ceil(o + stored_len) \in 1 .. n
         /\ last_transfer_o_len % MaxBeats = Ceil(o + stored_len) - 1
<1>1. PICK j \in Nat, r \in 0 .. STROBE_W - 1 :
        stored_len = STROBE_W * j + r /\ stored_len \div STROBE_W = j /\ stored_len % STROBE_W = r
  <2>1. CASE STROBE_W = 4 BY <2>1
  <2>2. CASE STROBE_W = 8 BY <2>2
  <2>3. CASE STROBE_W = 16 BY <2>3
  <2>4. CASE STROBE_W = 32 BY <2>4
  <2>5. CASE STROBE_W = 64 BY <2>5
  <2>6. QED BY <2>1, <2>2, <2>3, <2>4, <2>5, Widths
<1>2. PICK b \in Nat : b = IF o = 0 /\ r = 0 THEN j ELSE IF o + r > STROBE_W THEN j + 2 ELSE j + 1
  BY <1>1
<1>3. Ceil(o + stored_len) = b
  <2>1. o + stored_len <= STROBE_W * b /\ STROBE_W * b < o + stored_len + STROBE_W
    <3>1. CASE STROBE_W = 4 BY <1>1, <1>2, <3>1
    <3>2. CASE STROBE_W = 8 BY <1>1, <1>2, <3>2
    <3>3. CASE STROBE_W = 16 BY <1>1, <1>2, <3>3
    <3>4. CASE STROBE_W = 32 BY <1>1, <1>2, <3>4
    <3>5. CASE STROBE_W = 64 BY <1>1, <1>2, <3>5
    <3>6. QED BY <3>1, <3>2, <3>3, <3>4, <3>5, Widths
  <2>2. QED BY <2>1, <1>2, CeilUnique, Widths
<1>4. b \in 1 .. n
  <2>1. CASE STROBE_W = 4 BY <1>1, <1>2, <2>1
  <2>2. CASE STROBE_W = 8 BY <1>1, <1>2, <2>2
  <2>3. CASE STROBE_W = 16 BY <1>1, <1>2, <2>3
  <2>4. CASE STROBE_W = 32 BY <1>1, <1>2, <2>4
  <2>5. CASE STROBE_W = 64 BY <1>1, <1>2, <2>5
  <2>6. QED BY <2>1, <2>2, <2>3, <2>4, <2>5, Widths
<1>5. MaxBeats \in 2 .. 256 /\ b \in 1 .. MaxBeats
  BY <1>4, Widths
<1>6. CASE o = 0 /\ r = 0
  <2>1. last_transfer_o_len = (j % 256) + (MaxBeats - 1) /\ b = j
    BY <1>1, <1>2, <1>6 DEF last_transfer_o_len, storedWords
  <2>2. CASE j < 256
    <3>1. j % 256 = j
      BY <2>2
    <3>2. (MaxBeats * 1 + (b - 1)) % MaxBeats = b - 1
      BY <1>5, Remainder
    <3>3. (j % 256) + (MaxBeats - 1) = MaxBeats * 1 + (b - 1)
      BY <1>5, <2>1, <3>1
    <3>4. QED BY <1>3, <1>4, <2>1, <3>2, <3>3
  <2>3. CASE j = 256
    <3>1. MaxBeats = 256
      BY <1>5, <2>1, <2>3
    <3>2. (256 % 256) + (256 - 1) = 255 /\ 255 % 256 = 255
      OBVIOUS
    <3>3. QED BY <1>3, <1>4, <2>1, <2>3, <3>1, <3>2
  <2>4. QED BY <1>5, <2>1, <2>2, <2>3
<1>7. CASE ~(o = 0 /\ r = 0)
  <2>1. j < 256
    BY <1>2, <1>5, <1>7
  <2>2. j % 256 = j
    BY <2>1
  <2>3. last_transfer_o_len = b - 1
    BY <1>1, <1>2, <1>7, <2>2 DEF last_transfer_o_len, storedWords
  <2>4. (b - 1) % MaxBeats = b - 1
    BY <1>5
  <2>5. QED BY <1>3, <1>4, <2>3, <2>4
<1>8. QED BY <1>6, <1>7

\* Its words: those handed over are as many as those on the bus, or one fewer.
LEMMA AskedFacts ==
  ASSUME Asked
  PROVE  /\ offset \in 0 .. STROBE_W - 1 /\ FirstWord \in Nat
         /\ address_i = STROBE_W * FirstWord + offset
         /\ address_i - offset = STROBE_W * FirstWord
         /\ symbolsToRead_o = Ceil(length_i)
         /\ BusWords \in {symbolsToRead_o, symbolsToRead_o + 1}
         /\ offset = 0 => BusWords = symbolsToRead_o
<1>1. /\ offset \in 0 .. STROBE_W - 1 /\ FirstWord \in Nat
      /\ address_i = STROBE_W * FirstWord + offset
      /\ address_i - offset = STROBE_W * FirstWord
  <2>1. CASE STROBE_W = 4 BY <2>1 DEF Asked, offset, FirstWord
  <2>2. CASE STROBE_W = 8 BY <2>2 DEF Asked, offset, FirstWord
  <2>3. CASE STROBE_W = 16 BY <2>3 DEF Asked, offset, FirstWord
  <2>4. CASE STROBE_W = 32 BY <2>4 DEF Asked, offset, FirstWord
  <2>5. CASE STROBE_W = 64 BY <2>5 DEF Asked, offset, FirstWord
  <2>6. QED BY <2>1, <2>2, <2>3, <2>4, <2>5, Widths
<1>2. symbolsToRead_o = Ceil(length_i)
  BY DEF symbolsToRead_o, Ceil
<1>3. PICK o \in 0 .. STROBE_W - 1 : o = offset
  BY <1>1
<1>4. Ceil(o + length_i) \in {Ceil(length_i), Ceil(length_i) + 1}
  <2>1. CASE STROBE_W = 4 BY <2>1 DEF Asked, Ceil
  <2>2. CASE STROBE_W = 8 BY <2>2 DEF Asked, Ceil
  <2>3. CASE STROBE_W = 16 BY <2>3 DEF Asked, Ceil
  <2>4. CASE STROBE_W = 32 BY <2>4 DEF Asked, Ceil
  <2>5. CASE STROBE_W = 64 BY <2>5 DEF Asked, Ceil
  <2>6. QED BY <2>1, <2>2, <2>3, <2>4, <2>5, Widths
<1>5. offset = 0 => BusWords = symbolsToRead_o
  BY <1>2 DEF BusWords, Asked
<1>6. QED BY <1>1, <1>2, <1>3, <1>4, <1>5 DEF BusWords

\* The most a burst may hold, in words.
LEMMA LongestIs ==
  \E m \in 1 .. MaxBeats :
    /\ max_transfer_len = STROBE_W * m
    /\ max_transfer_len_minus_one = STROBE_W * m - STROBE_W
    /\ STROBE_W * m = MaxBeats * STROBE_W \/ STROBE_W * m = Page
<1>1. PICK p \in Nat \ {0} : Page = STROBE_W * p
  BY PageIs
<1>2. MaxBeats * STROBE_W = STROBE_W * MaxBeats
  BY Widths
<1>3. CASE MaxBeats * STROBE_W < Page
  BY <1>2, <1>3, Widths DEF max_transfer_len, max_transfer_len_minus_one, Min2
<1>4. CASE ~(MaxBeats * STROBE_W < Page)
  <2>1. p \in 1 .. MaxBeats
    BY <1>1, <1>4, Widths
  <2>2. QED BY <1>1, <1>4, <2>1 DEF max_transfer_len, max_transfer_len_minus_one, Min2
<1>5. QED BY <1>3, <1>4

\* The burst the controller shows: the last one ends with the last word of the
\* request, and any other covers whole words.
LEMMA BurstIs ==
  ASSUME Asked, NEW g \in Nat, Covered(g)
  PROVE  /\ true_axi_axlen_o \in 0 .. MaxBeats - 1
         /\ last_transfer_next_o =>
              transfer_byte_size = stored_len /\ g + true_axi_axlen_o + 1 = BusWords
         /\ ~last_transfer_next_o =>
              /\ offset = 0
              /\ transfer_byte_size = STROBE_W * (true_axi_axlen_o + 1)
              /\ transfer_byte_size < stored_len
         /\ (true_axi_axaddr_o % Page) + offset + transfer_byte_size <= Page
<1>1. PICK o \in 0 .. STROBE_W - 1 : o = offset
  BY AskedFacts
<1>2. PICK c \in Nat \ {0} :
        /\ boundary_transfer_len = STROBE_W * c
        /\ true_axi_axaddr_o % Page = Page - STROBE_W * c
        /\ (true_axi_axaddr_o + o) % Page = Page - STROBE_W * c + o
  <2>1. FirstWord + g \in Nat
    BY AskedFacts
  <2>2. PICK c \in Nat \ {0} :
          /\ Page - ((STROBE_W * (FirstWord + g)) % Page) = STROBE_W * c
          /\ (STROBE_W * (FirstWord + g) + o) % Page = Page - STROBE_W * c + o
    BY <2>1, PagePlace
  <2>3. true_axi_axaddr_o = STROBE_W * (FirstWord + g)
    BY DEF Covered
  <2>4. true_axi_axaddr_o % Page \in Nat
    <3>1. true_axi_axaddr_o \in Nat
      BY <2>1, <2>3, Widths
    <3>2. QED BY <3>1, BusAssumption
  <2>5. boundary_transfer_len = STROBE_W * c
    BY <2>2, <2>3 DEF boundary_transfer_len
  <2>6. true_axi_axaddr_o % Page = Page - STROBE_W * c
    BY <2>2, <2>3, <2>4, Widths, BusAssumption
  <2>7. QED BY <2>2, <2>3, <2>5, <2>6
<1>3. PICK m \in 1 .. MaxBeats :
        /\ max_transfer_len = STROBE_W * m
        /\ max_transfer_len_minus_one = STROBE_W * m - STROBE_W
        /\ STROBE_W * m = MaxBeats * STROBE_W \/ STROBE_W * m = Page
  BY LongestIs
<1>4. PICK s \in Nat \ {0} : s = stored_len
  BY DEF Covered
<1>5. CASE o = 0
  <2>1. first_i_transfer_len = STROBE_W * m
    BY <1>1, <1>3, <1>5, Widths DEF first_i_transfer_len
  <2>2. PICK n \in 1 .. MaxBeats : n = IF c < m THEN c ELSE m
    BY Widths
  <2>3. n <= c /\ transfer_byte_size = IF s < STROBE_W * n THEN s ELSE STROBE_W * n
    <3>1. transfer_byte_size = Min2(STROBE_W * c, Min2(s, STROBE_W * m))
      BY <1>2, <1>3, <1>4, <2>1 DEF transfer_byte_size
    <3>2. CASE STROBE_W = 4 BY <2>2, <3>1, <3>2 DEF Min2
    <3>3. CASE STROBE_W = 8 BY <2>2, <3>1, <3>3 DEF Min2
    <3>4. CASE STROBE_W = 16 BY <2>2, <3>1, <3>4 DEF Min2
    <3>5. CASE STROBE_W = 32 BY <2>2, <3>1, <3>5 DEF Min2
    <3>6. CASE STROBE_W = 64 BY <2>2, <3>1, <3>6 DEF Min2
    <3>7. QED BY <3>2, <3>3, <3>4, <3>5, <3>6, Widths
  <2>4. CASE s <= STROBE_W * n
    <3>1. last_transfer_next_o /\ transfer_byte_size = s
      BY <1>4, <2>3, <2>4, Widths DEF last_transfer_next_o
    <3>2. Ceil(s) \in 1 .. n /\ last_transfer_o_len % MaxBeats = Ceil(s) - 1
      BY <1>1, <1>4, <1>5, <2>4, LastLength, Widths
    <3>3. g + Ceil(s) = BusWords
      <4>1. PICK l \in Nat : l = length_i /\ s = l - STROBE_W * g
        BY <1>4 DEF Asked, Covered
      <4>2. PICK e \in Nat : e = Ceil(s)
        BY <3>2
      <4>3. s <= STROBE_W * e /\ STROBE_W * e < s + STROBE_W
        BY <4>2, CeilIs
      <4>4. l <= STROBE_W * (g + e) /\ STROBE_W * (g + e) < l + STROBE_W
        <5>1. CASE STROBE_W = 4 BY <4>1, <4>3, <5>1
        <5>2. CASE STROBE_W = 8 BY <4>1, <4>3, <5>2
        <5>3. CASE STROBE_W = 16 BY <4>1, <4>3, <5>3
        <5>4. CASE STROBE_W = 32 BY <4>1, <4>3, <5>4
        <5>5. CASE STROBE_W = 64 BY <4>1, <4>3, <5>5
        <5>6. QED BY <5>1, <5>2, <5>3, <5>4, <5>5, Widths
      <4>5. Ceil(l) = g + e
        BY <4>4, CeilUnique
      <4>6. QED BY <1>1, <1>5, <4>1, <4>2, <4>5 DEF BusWords
    <3>4. true_axi_axlen_o = Ceil(s) - 1
      BY <3>1, <3>2 DEF true_axi_axlen_o
    <3>5. STROBE_W * n <= STROBE_W * c
      BY <2>3, Widths
    <3>6. Page - STROBE_W * c + 0 + s <= Page
      BY <2>4, <3>5, Widths, BusAssumption
    <3>7. QED BY <1>1, <1>2, <1>4, <1>5, <3>1, <3>2, <3>3, <3>4, <3>6, Widths
  <2>5. CASE ~(s <= STROBE_W * n)
    <3>1. ~last_transfer_next_o /\ transfer_byte_size = STROBE_W * n /\ transfer_byte_size < s
      BY <1>4, <2>3, <2>5, Widths DEF last_transfer_next_o
    <3>2. (STROBE_W * n - 1) \div STROBE_W = n - 1
      <4>1. CASE STROBE_W = 4 BY <4>1
      <4>2. CASE STROBE_W = 8 BY <4>2
      <4>3. CASE STROBE_W = 16 BY <4>3
      <4>4. CASE STROBE_W = 32 BY <4>4
      <4>5. CASE STROBE_W = 64 BY <4>5
      <4>6. QED BY <4>1, <4>2, <4>3, <4>4, <4>5, Widths
    <3>3. (n - 1) % MaxBeats = n - 1
      BY Widths
    <3>4. true_axi_axlen_o = n - 1
      BY <3>1, <3>2, <3>3 DEF true_axi_axlen_o
    <3>5. STROBE_W * n <= STROBE_W * c
      BY <2>3, Widths
    <3>6. Page - STROBE_W * c + 0 + STROBE_W * n <= Page
      BY <3>5, Widths, BusAssumption
    <3>7. QED BY <1>1, <1>2, <1>4, <1>5, <3>1, <3>4, <3>6, Widths
  <2>6. QED BY <2>4, <2>5
<1>6. CASE o # 0
  <2>1. g = 0 /\ s = length_i /\ first_i_transfer /\ true_axi_axaddr_o + o = address_i
    <3>1. g = 0
      BY <1>1, <1>6 DEF Covered
    <3>2. length_i \in Nat /\ STROBE_W * 0 = 0 /\ FirstWord + 0 = FirstWord
      BY AskedFacts, Widths DEF Asked
    <3>3. QED BY <1>1, <1>4, <3>1, <3>2, AskedFacts DEF Covered
  <2>2. o + s <= MaxBeats * STROBE_W /\ (address_i % Page) + s <= Page
    BY <1>1, <1>6, <2>1 DEF Asked, ReadFits, offset
  <2>3. o + s <= STROBE_W * c
    BY <1>2, <2>1, <2>2, Widths, BusAssumption
  <2>4. o + s <= STROBE_W * m
    <3>1. STROBE_W * c <= Page
      <4>1. true_axi_axaddr_o \in Nat
        BY AskedFacts, Widths DEF Covered
      <4>2. true_axi_axaddr_o % Page \in Nat
        BY <4>1, BusAssumption
      <4>3. QED BY <1>2, <4>2, Widths, BusAssumption
    <3>2. QED BY <1>3, <2>2, <2>3, <3>1, Widths, BusAssumption
  <2>5. transfer_byte_size = s /\ last_transfer_next_o
    <3>1. first_i_transfer_len = STROBE_W * m - o
      BY <1>1, <1>3, Widths DEF first_i_transfer_len
    <3>2. transfer_byte_size = Min2(STROBE_W * c, Min2(s, STROBE_W * m - o))
      BY <1>2, <1>4, <2>1, <3>1 DEF transfer_byte_size
    <3>3. transfer_byte_size = s
      BY <2>3, <2>4, <3>2, Widths DEF Min2
    <3>4. QED BY <1>4, <3>3 DEF last_transfer_next_o
  <2>6. Ceil(o + s) \in 1 .. m /\ last_transfer_o_len % MaxBeats = Ceil(o + s) - 1
    BY <1>1, <1>4, <2>4, LastLength, Widths
  <2>7. Ceil(o + s) = BusWords
    BY <1>1, <2>1 DEF BusWords
  <2>8. true_axi_axlen_o = Ceil(o + s) - 1
    BY <2>5, <2>6 DEF true_axi_axlen_o
  <2>9. Page - STROBE_W * c + o + s <= Page
    BY <2>3, Widths, BusAssumption
  <2>10. QED BY <1>1, <1>2, <1>4, <2>1, <2>5, <2>6, <2>7, <2>8, <2>9, Widths
<1>7. QED BY <1>5, <1>6

-----------------------------------------------------------------------------
(* A request, clock edge by clock edge.                                     *)

\* Words of the request that have come from the bus.
Got == IF valid THEN received + 1 ELSE 0

ReadTypes ==
  /\ {m_rvalid_i, valid, flush, first_i_transfer, last_transfer_o} \subseteq BOOLEAN
  /\ read_state \in 0 .. 3
  /\ received \in Nat /\ pending \in Nat

\* No read is under way: the word held back, if any, is the last of its request,
\* which may have got its last word with it already.
AtRest ==
  /\ pending = 0
  /\ valid <=> flush
  /\ m_rvalid_i /\ ~flush => received = 0
  /\ m_rvalid_i /\ flush =>
       /\ received + 1 = symbolsToRead_o /\ BusWords = symbolsToRead_o
       /\ stored_data = FirstWord + received

\* A read is under way: the word held back is the last that came, the memory
\* gives the rest of its burst, the controller covers the rest of the request.
UnderWay ==
  /\ m_rvalid_i /\ ~flush
  /\ symbolsRead = received
  /\ ~valid => received = 0
  /\ valid => stored_data = FirstWord + received
  /\ read_state # 3 => pending = 0 /\ Covered(Got)
  /\ read_state = 2 => read_axi_len = true_axi_axlen_o
  /\ read_state = 3 =>
       /\ pending > 0
       /\ nextWord = FirstWord + Got
       /\ last_transfer_o => Got + pending = BusWords
       /\ ~last_transfer_o => Covered(Got + pending)

ReadInv ==
  /\ ReadTypes
  /\ m_rvalid_i => Asked
  /\ read_state = 0 => AtRest
  /\ read_state # 0 => UnderWay

\* The reads asked for are such.
ReadsFit == \A t \in Reads : t \in Nat \X (Nat \ {0}) /\ ReadFits(t)

\* Reset leaves nothing under way.
LEMMA ReadBegins == ReadInit => ReadInv
<1> SUFFICES ASSUME ReadInit PROVE ReadInv
  OBVIOUS
<1>1. ReadTypes
  <2>1. /\ m_rvalid_i = FALSE /\ valid = FALSE /\ flush = FALSE
        /\ first_i_transfer = FALSE /\ last_transfer_o = FALSE
    BY DEF ReadInit, ControllerInit
  <2>2. {m_rvalid_i, valid, flush, first_i_transfer, last_transfer_o} \subseteq BOOLEAN
    BY <2>1, Zenon
  <2>3. QED BY <2>2 DEF ReadInit, ReadTypes
<1>2. AtRest
  BY DEF ReadInit, AtRest
<1>3. ~m_rvalid_i /\ read_state = 0
  BY DEF ReadInit
<1>4. QED BY <1>1, <1>2, <1>3 DEF ReadInv

\* The words that have come and those to come in the burst are at most all; fewer
\* when it is not the last.
LEMMA WordsToCome ==
  ASSUME ReadInv, read_state = 3
  PROVE  /\ Got \in Nat /\ pending > 0 /\ BusWords \in Nat
         /\ Got + pending <= BusWords
         /\ ~last_transfer_o => Got + pending < BusWords /\ BusWords = symbolsToRead_o
<1>1. Asked /\ UnderWay /\ ReadTypes
  BY DEF ReadInv, UnderWay
<1>2. Got \in Nat /\ pending \in Nat \ {0}
  BY <1>1 DEF UnderWay, ReadTypes, Got
<1>3. BusWords \in Nat
  <2>1. PICK l \in Nat : l = length_i
    BY <1>1 DEF Asked
  <2>2. PICK o \in 0 .. STROBE_W - 1 : o = offset
    BY <1>1, AskedFacts
  <2>3. o + l \in Nat
    BY <2>1, <2>2, Widths
  <2>4. QED BY <2>1, <2>2, <2>3, CeilIs DEF BusWords
<1>4. CASE last_transfer_o
  BY <1>1, <1>2, <1>3, <1>4 DEF UnderWay
<1>5. CASE ~last_transfer_o
  <2>1. PICK g \in Nat \ {0} : g = Got + pending
    BY <1>2
  <2>2. Covered(g)
    BY <1>1, <1>5, <2>1 DEF UnderWay
  <2>3. PICK l \in Nat : l = length_i
    BY <1>1 DEF Asked
  <2>4. offset = 0 /\ STROBE_W * g < l
    BY <2>1, <2>2, <2>3, Widths DEF Covered
  <2>5. PICK e \in Nat : e = Ceil(l)
    BY CeilIs
  <2>6. l <= STROBE_W * e
    BY <2>5, CeilIs
  <2>7. g < e
    <3>1. CASE STROBE_W = 4 BY <2>4, <2>6, <3>1
    <3>2. CASE STROBE_W = 8 BY <2>4, <2>6, <3>2
    <3>3. CASE STROBE_W = 16 BY <2>4, <2>6, <3>3
    <3>4. CASE STROBE_W = 32 BY <2>4, <2>6, <3>4
    <3>5. CASE STROBE_W = 64 BY <2>4, <2>6, <3>5
    <3>6. QED BY <3>1, <3>2, <3>3, <3>4, <3>5, Widths
  <2>8. BusWords = e /\ symbolsToRead_o = e
    BY <1>1, <2>3, <2>4, <2>5, AskedFacts
  <2>9. QED BY <1>2, <1>3, <1>5, <2>1, <2>7, <2>8
<1>6. QED BY <1>4, <1>5

\* A word that is handed over is the next one, and last is told with the last.
LEMMA HandedOver ==
  ASSUME ReadInv, NEW go \in BOOLEAN, m_rvalid_i, m_rready_o(go)
  PROVE  /\ received \in Nat /\ received + 1 <= symbolsToRead_o
         /\ stored_data = FirstWord + received
         /\ m_rlast_o(go) <=> received + 1 = symbolsToRead_o
         /\ read_state = 0 => flush /\ BusWords = symbolsToRead_o
         /\ read_state # 0 =>
              /\ read_state = 3 /\ go /\ pending > 0 /\ nextWord = FirstWord + received + 1
              /\ received + 1 = symbolsToRead_o => pending = 1 /\ last_transfer_o
<1>1. Asked /\ ReadTypes
  BY DEF ReadInv
<1>2. received \in Nat /\ symbolsToRead_o \in Nat
  <2>1. PICK l \in Nat : l = length_i
    BY <1>1 DEF Asked
  <2>2. Ceil(l) \in Nat
    BY CeilIs
  <2>3. QED BY <1>1, <2>1, <2>2, AskedFacts DEF ReadTypes
<1>3. CASE read_state = 0
  <2>1. AtRest
    BY <1>3 DEF ReadInv
  <2>2. flush
    BY <2>1 DEF AtRest, m_rready_o, axi_rvalid_i
  <2>3. QED BY <1>2, <1>3, <2>1, <2>2 DEF AtRest, m_rlast_o
<1>4. CASE read_state # 0
  <2>1. UnderWay
    BY <1>4 DEF ReadInv
  <2>2. valid /\ pending > 0 /\ go
    BY <2>1 DEF UnderWay, m_rready_o, axi_rvalid_i
  <2>3. read_state = 3
    BY <2>1, <2>2 DEF UnderWay
  <2>4. Got = received + 1
    BY <2>2 DEF Got
  <2>5. /\ pending \in Nat /\ BusWords \in {symbolsToRead_o, symbolsToRead_o + 1}
        /\ received + 1 + pending <= BusWords
        /\ ~last_transfer_o => received + 1 + pending < BusWords /\ BusWords = symbolsToRead_o
    BY <1>1, <2>3, <2>4, WordsToCome, AskedFacts DEF ReadTypes
  <2>6. received + 1 <= symbolsToRead_o
    BY <1>2, <2>2, <2>5
  <2>7. received + 1 = symbolsToRead_o => pending = 1 /\ last_transfer_o
    BY <1>2, <2>2, <2>5
  <2>8. stored_data = FirstWord + received /\ nextWord = FirstWord + received + 1
    BY <1>1, <1>2, <2>1, <2>2, <2>3, <2>4, AskedFacts DEF UnderWay
  <2>9. m_rlast_o(go) <=> received + 1 = symbolsToRead_o
    BY <1>2, <1>4, <2>1, <2>6 DEF UnderWay, m_rlast_o
  <2>10. QED BY <1>2, <1>4, <2>2, <2>3, <2>6, <2>7, <2>8, <2>9
<1>5. QED BY <1>3, <1>4

\* A clock edge keeps the types, and the request the caller holds.
LEMMA ClockKeepsType ==
  ASSUME ReadInv, ReadsFit, NEW arready \in BOOLEAN, NEW go \in BOOLEAN, ReadEdge(arready, go)
  PROVE  ReadTypes' /\ (m_rvalid_i' => Asked')
<1>1. m_rvalid_i' \in BOOLEAN /\ received' \in Nat
  <2>1. m_rvalid_i \in BOOLEAN /\ received \in Nat
    BY DEF ReadInv, ReadTypes
  <2>2. m_rvalid_i' \in {m_rvalid_i, TRUE, FALSE}
    BY Zenon DEF ReadEdge, CallerClock
  <2>3. received' \in {0, received, received + 1}
    BY Zenon DEF ReadEdge, CallerClock
  <2>4. m_rvalid_i' \in BOOLEAN
    BY <2>1, <2>2, Zenon
  <2>5. received' \in Nat
    BY <2>1, <2>3
  <2>6. QED BY <2>4, <2>5
<1>2. valid' \in BOOLEAN /\ flush' \in BOOLEAN
  BY Zenon DEF ReadEdge, AlignClock
<1>3. first_i_transfer' \in BOOLEAN /\ last_transfer_o' \in BOOLEAN
  <2>1. last_transfer_next_o \in BOOLEAN
    BY Zenon DEF last_transfer_next_o
  <2>2. CASE TransferStart(address_i, length_i) \/ BurstStart
    BY <2>1, <2>2 DEF TransferStart, BurstStart
  <2>3. CASE UNCHANGED controllerRegs
    BY <2>3 DEF ReadInv, ReadTypes, controllerRegs
  <2>4. QED BY <2>2, <2>3 DEF ReadEdge, ControllerClock
<1>4. read_state' \in 0 .. 3
  BY DEF ReadInv, ReadTypes, ReadEdge, ReadClock, ReadIdle, ReadCompute, ReadAddress, ReadData
<1>5. pending' \in Nat
  <2>1. CASE burst_start_i(arready)
    <3>1. read_state = 2
      BY <2>1 DEF burst_start_i
    <3>2. m_rvalid_i /\ Covered(Got) /\ read_axi_len = true_axi_axlen_o
      BY <3>1 DEF ReadInv, UnderWay
    <3>3. Got \in Nat /\ Asked
      BY <3>2 DEF ReadInv, ReadTypes, Got
    <3>4. read_axi_len \in Nat
      BY <3>2, <3>3, BurstIs, Widths
    <3>5. pending = 0
      BY <3>1 DEF ReadInv, UnderWay
    <3>6. QED BY <2>1, <3>4, <3>5 DEF ReadEdge, MemoryClock, axi_rvalid_i
  <2>2. CASE ~burst_start_i(arready)
    BY <2>2 DEF ReadEdge, MemoryClock, axi_rvalid_i, ReadInv, ReadTypes
  <2>3. QED BY <2>1, <2>2
<1>6. m_rvalid_i' => Asked'
  <2>1. CASE m_rvalid_i
    <3>1. m_rvalid_i' => address_i' = address_i /\ length_i' = length_i
      BY <2>1 DEF ReadEdge, CallerClock
    <3>2. Asked
      BY <2>1 DEF ReadInv
    <3>3. QED BY <3>1, <3>2 DEF Asked, ReadFits
  <2>2. CASE ~m_rvalid_i
    <3>1. SUFFICES ASSUME m_rvalid_i' PROVE Asked'
      OBVIOUS
    <3>2. PICK t \in Reads : address_i' = t[1] /\ length_i' = t[2]
      BY <2>2, <3>1 DEF ReadEdge, CallerClock
    <3>3. t \in Nat \X (Nat \ {0}) /\ ReadFits(t)
      BY DEF ReadsFit
    <3>4. ReadFits(<<address_i, length_i>>)'
      BY <3>2, <3>3 DEF ReadFits
    <3>5. QED BY <3>2, <3>3, <3>4 DEF Asked
  <2>3. QED BY <2>1, <2>2
<1>7. QED BY <1>1, <1>2, <1>3, <1>4, <1>5, <1>6, Zenon DEF ReadTypes

\* The edges at which no read is under way.
LEMMA RestStep ==
  ASSUME ReadInv, ReadTypes', m_rvalid_i' => Asked',
         NEW arready \in BOOLEAN, NEW go \in BOOLEAN, ReadEdge(arready, go),
         read_state = 0
  PROVE  ReadInv'
<1>1. ReadTypes /\ AtRest
  BY DEF ReadInv
<1>2. /\ ~axi_rvalid_i(go) /\ ~burst_start_i(arready) /\ ~burst_last(go)
      /\ m_rready_o(go) <=> flush
  BY <1>1 DEF AtRest, axi_rvalid_i, burst_start_i, burst_last, m_rready_o
<1>3. ~flush' /\ ~valid' /\ pending' = 0
  <2>1. flush' = FALSE /\ valid' = FALSE
    BY <1>2, Zenon DEF ReadEdge, AlignClock
  <2>2. pending' = 0
    BY <1>1, <1>2 DEF ReadEdge, MemoryClock, AtRest
  <2>3. QED BY <2>1, <2>2
<1>4. CASE transfer_start_i(go)
  <2>1. m_rvalid_i /\ ~flush /\ received = 0 /\ Asked
    BY <1>1, <1>2, <1>4 DEF transfer_start_i, AtRest, ReadInv
  <2>2. m_rvalid_i' /\ received' = 0 /\ address_i' = address_i /\ length_i' = length_i
    BY <1>2, <2>1 DEF ReadEdge, CallerClock
  <2>3. read_state' = 1 /\ symbolsRead' = 0
    BY <1>4 DEF ReadEdge, ReadClock, ReadIdle, ReadCompute, ReadAddress, ReadData, transfer_start_i
  <2>4. /\ first_i_transfer' /\ stored_len' = length_i
        /\ true_axi_axaddr_o' = address_i - offset
    <3>1. TransferStart(address_i, length_i)
      BY <1>2, <1>4 DEF ReadEdge, ControllerClock
    <3>2. QED BY <3>1 DEF TransferStart, offset
  <2>5. Covered(0)'
    <3>1. length_i \in Nat \ {0} /\ STROBE_W * 0 = 0
      BY <2>1, Widths DEF Asked
    <3>2. address_i - offset = STROBE_W * (FirstWord + 0)
      BY <2>1, AskedFacts
    <3>3. FirstWord' = FirstWord /\ length_i - 0 = length_i
      BY <2>2, <3>1 DEF FirstWord
    <3>4. QED BY <2>2, <2>4, <3>1, <3>2, <3>3 DEF Covered
  <2>6. Got' = 0
    BY <1>3 DEF Got
  <2>7. UnderWay'
    BY <1>3, <2>2, <2>3, <2>5, <2>6 DEF UnderWay
  <2>8. QED BY <2>3, <2>7 DEF ReadInv
<1>5. CASE ~transfer_start_i(go)
  <2>1. read_state' = 0
    BY <1>5 DEF ReadEdge, ReadClock, ReadIdle, ReadCompute, ReadAddress, ReadData
  <2>2. m_rvalid_i' => received' = 0
    <3>1. CASE ~m_rvalid_i
      BY <3>1 DEF ReadEdge, CallerClock
    <3>2. CASE m_rvalid_i
      BY <1>2, <1>5, <3>2 DEF ReadEdge, CallerClock, transfer_start_i, m_rlast_o
    <3>3. QED BY <3>1, <3>2
  <2>3. AtRest'
    BY <1>3, <2>2 DEF AtRest
  <2>4. QED BY <2>1, <2>3 DEF ReadInv
<1>6. QED BY <1>4, <1>5

\* The edges of a read before its burst.
LEMMA AddressStep ==
  ASSUME ReadInv, ReadTypes', m_rvalid_i' => Asked', NEW arready \in BOOLEAN, NEW go \in BOOLEAN,
         ReadEdge(arready, go), read_state \in {1, 2}
  PROVE  ReadInv'
<1>1. ReadTypes /\ UnderWay /\ Asked
  BY DEF ReadInv, UnderWay
<1>2. /\ ~axi_rvalid_i(go) /\ ~burst_last(go) /\ ~m_rready_o(go) /\ ~transfer_start_i(go)
      /\ pending = 0 /\ m_rvalid_i /\ ~flush
  BY <1>1 DEF UnderWay, axi_rvalid_i, burst_last, m_rready_o, transfer_start_i
<1>3. UNCHANGED <<m_rvalid_i, address_i, length_i, received>>
  BY <1>2 DEF ReadEdge, CallerClock
<1>4. /\ (valid' <=> valid) /\ ~flush' /\ stored_data' = stored_data
  <2>1. flush' = FALSE /\ stored_data' = stored_data
    BY <1>2, Zenon DEF ReadEdge, AlignClock
  <2>2. read_state # 0
    OBVIOUS
  <2>3. valid' = (valid /\ TRUE)
    BY <1>2, <2>2, Zenon DEF ReadEdge, AlignClock
  <2>4. valid \in BOOLEAN
    BY <1>1 DEF ReadTypes
  <2>5. QED BY <2>1, <2>3, <2>4
<1>5. symbolsRead' = symbolsRead
  BY <1>2 DEF ReadEdge, ReadClock, ReadIdle, ReadCompute, ReadAddress, ReadData, CountSymbol
<1>6. Got' = Got /\ FirstWord' = FirstWord /\ BusWords' = BusWords /\ Got \in Nat
  BY <1>1, <1>3, <1>4 DEF Got, FirstWord, BusWords, Ceil, offset, ReadTypes
<1>7. CASE burst_start_i(arready)
  <2>1. read_state = 2 /\ read_state' = 3
    BY <1>7 DEF burst_start_i, ReadEdge, ReadClock, ReadIdle, ReadCompute, ReadAddress, ReadData
  <2>2. Covered(Got) /\ read_axi_len = true_axi_axlen_o
    BY <1>1, <2>1 DEF UnderWay
  <2>3. BurstStart
    BY <1>2, <1>7 DEF ReadEdge, ControllerClock
  <2>4. pending' = read_axi_len + 1 /\ nextWord' = true_axi_axaddr_o \div STROBE_W
    BY <1>2, <1>7 DEF ReadEdge, MemoryClock
  <2>5. PICK b \in 1 .. MaxBeats : b = true_axi_axlen_o + 1
    <3>1. true_axi_axlen_o \in 0 .. MaxBeats - 1
      BY <1>1, <1>6, <2>2, BurstIs
    <3>2. QED BY <3>1, Widths
  <2>6. PICK w \in Nat : w = FirstWord + Got
    BY <1>1, <1>6, AskedFacts
  <2>7. nextWord' = FirstWord + Got
    <3>1. true_axi_axaddr_o = STROBE_W * w
      BY <2>2, <2>6 DEF Covered
    <3>2. (STROBE_W * w) \div STROBE_W = w
      <4>1. CASE STROBE_W = 4 BY <4>1
      <4>2. CASE STROBE_W = 8 BY <4>2
      <4>3. CASE STROBE_W = 16 BY <4>3
      <4>4. CASE STROBE_W = 32 BY <4>4
      <4>5. CASE STROBE_W = 64 BY <4>5
      <4>6. QED BY <4>1, <4>2, <4>3, <4>4, <4>5, Widths
    <3>3. QED BY <2>4, <2>6, <3>1, <3>2
  <2>8. pending' = b
    BY <2>2, <2>4, <2>5
  <2>9. last_transfer_o' => Got + pending' = BusWords
    <3>1. last_transfer_o' => last_transfer_next_o
      BY <2>3 DEF BurstStart
    <3>2. last_transfer_next_o => Got + true_axi_axlen_o + 1 = BusWords
      BY <1>1, <1>6, <2>2, BurstIs
    <3>3. true_axi_axlen_o \in Nat
      BY <1>1, <1>6, <2>2, BurstIs, Widths
    <3>4. QED BY <1>6, <2>5, <2>8, <3>1, <3>2, <3>3
  <2>10. ~last_transfer_o' => Covered(Got + b)'
    <3>1. SUFFICES ASSUME ~last_transfer_o' PROVE Covered(Got + b)'
      OBVIOUS
    <3>2. ~last_transfer_next_o
      BY <2>3, <3>1 DEF BurstStart
    <3>3. offset = 0 /\ transfer_byte_size = STROBE_W * b /\ transfer_byte_size < stored_len
      BY <1>1, <1>6, <2>2, <2>5, <3>2, BurstIs
    <3>4. PICK s \in Nat, l \in Nat : s = stored_len /\ l = length_i /\ s = l - STROBE_W * Got
      BY <1>1, <2>2 DEF Covered, Asked
    <3>5. /\ stored_len' = s - STROBE_W * b /\ ~first_i_transfer'
          /\ true_axi_axaddr_o' = STROBE_W * w + b * STROBE_W
      BY <2>2, <2>3, <2>5, <2>6, <3>3, <3>4 DEF BurstStart, Covered
    <3>6. s - STROBE_W * b \in Nat \ {0} /\ s - STROBE_W * b = l - STROBE_W * (Got + b)
      <4>1. STROBE_W * (Got + b) = STROBE_W * Got + STROBE_W * b
        BY <1>6, Widths
      <4>2. STROBE_W * Got \in Nat /\ STROBE_W * b \in Nat
        BY <1>6, Widths
      <4>3. QED BY <3>3, <3>4, <4>1, <4>2
    <3>7. STROBE_W * w + b * STROBE_W = STROBE_W * (FirstWord + (Got + b))
      <4>1. FirstWord + (Got + b) = w + b
        BY <1>1, <1>6, <2>6, AskedFacts
      <4>2. STROBE_W * w + b * STROBE_W = STROBE_W * (w + b)
        BY Widths
      <4>3. QED BY <4>1, <4>2
    <3>8. offset' = offset /\ length_i' = l /\ Got + b # 0
      BY <1>3, <1>6, <3>4 DEF offset
    <3>9. (Got + b)' = Got + b
      BY <1>6
    <3>10. QED BY <1>6, <3>3, <3>5, <3>6, <3>7, <3>8 DEF Covered
  <2>11. UnderWay'
    BY <1>1, <1>2, <1>3, <1>4, <1>5, <1>6, <2>1, <2>5, <2>7, <2>8, <2>9, <2>10 DEF UnderWay
  <2>12. QED BY <2>1, <2>11 DEF ReadInv
<1>8. CASE ~burst_start_i(arready)
  <2>1. UNCHANGED controllerRegs /\ UNCHANGED <<pending, nextWord>>
    BY <1>2, <1>8 DEF ReadEdge, ControllerClock, MemoryClock, burst_start_i
  <2>2. read_state' = 2 /\ (read_state = 2 => read_axi_len' = read_axi_len)
        /\ (read_state = 1 => read_axi_len' = true_axi_axlen_o)
    BY <1>8 DEF burst_start_i, ReadEdge, ReadClock, ReadIdle, ReadCompute, ReadAddress, ReadData
  <2>3. true_axi_axlen_o' = true_axi_axlen_o /\ (Covered(Got) <=> Covered(Got)')
    <3>1. UNCHANGED <<stored_len, first_i_transfer, true_axi_axaddr_o, address_i, length_i>>
      BY <1>3, <2>1 DEF controllerRegs
    <3>2. offset' = offset
      BY <1>3 DEF offset
    <3>3. true_axi_axlen_o' = true_axi_axlen_o
      BY <3>1, <3>2 DEF true_axi_axlen_o, last_transfer_next_o, last_transfer_o_len, storedWords,
           transfer_byte_size, boundary_transfer_len, first_i_transfer_len
    <3>4. QED BY <1>6, <3>1, <3>2, <3>3 DEF Covered
  <2>4. UnderWay'
    BY <1>1, <1>2, <1>3, <1>4, <1>5, <1>6, <2>1, <2>2, <2>3 DEF UnderWay
  <2>5. QED BY <2>2, <2>4 DEF ReadInv
<1>9. QED BY <1>7, <1>8

\* The edges of a burst at which the memory pauses.
LEMMA PauseStep ==
  ASSUME ReadInv, ReadTypes', m_rvalid_i' => Asked', NEW arready \in BOOLEAN, NEW go \in BOOLEAN,
         ReadEdge(arready, go), read_state = 3, ~go
  PROVE  ReadInv'
<1>1. ReadTypes /\ UnderWay /\ Asked
  BY DEF ReadInv, UnderWay
<1>2. /\ ~axi_rvalid_i(go) /\ ~burst_last(go) /\ ~m_rready_o(go) /\ ~transfer_start_i(go)
      /\ ~burst_start_i(arready) /\ m_rvalid_i
  BY <1>1 DEF UnderWay, axi_rvalid_i, burst_last, m_rready_o, transfer_start_i, burst_start_i
<1>3. /\ UNCHANGED <<m_rvalid_i, address_i, length_i, received>>
      /\ UNCHANGED controllerRegs /\ UNCHANGED <<pending, nextWord>>
  BY <1>2 DEF ReadEdge, CallerClock, ControllerClock, MemoryClock
<1>4. symbolsRead' = symbolsRead /\ read_state' = 3
  BY <1>2 DEF ReadEdge, ReadClock, ReadIdle, ReadCompute, ReadAddress, ReadData, CountSymbol
<1>5. flush' = FALSE /\ stored_data' = stored_data /\ (valid' <=> valid)
  <2>1. flush' = FALSE /\ stored_data' = stored_data
    BY <1>2, Zenon DEF ReadEdge, AlignClock
  <2>2. read_state # 0
    OBVIOUS
  <2>3. valid' = (valid /\ TRUE)
    BY <1>2, <2>2, Zenon DEF ReadEdge, AlignClock
  <2>4. valid \in BOOLEAN
    BY <1>1 DEF ReadTypes
  <2>5. QED BY <2>1, <2>3, <2>4
<1>6. /\ Got' = Got /\ FirstWord' = FirstWord /\ BusWords' = BusWords /\ offset' = offset
  BY <1>3, <1>5 DEF Got, FirstWord, BusWords, Ceil, offset
<1>7. ~last_transfer_o => Covered(Got + pending)'
  <2>1. SUFFICES ASSUME ~last_transfer_o PROVE Covered(Got + pending)'
    OBVIOUS
  <2>2. Covered(Got + pending)
    BY <1>1, <2>1 DEF UnderWay
  <2>3. UNCHANGED <<stored_len, first_i_transfer, true_axi_axaddr_o, address_i, length_i, pending>>
    BY <1>3 DEF controllerRegs
  <2>4. QED BY <1>6, <2>2, <2>3 DEF Covered
<1>8. (last_transfer_o' <=> last_transfer_o) /\ pending' = pending /\ nextWord' = nextWord
  BY <1>3 DEF controllerRegs
<1>9. UnderWay'
  BY <1>1, <1>2, <1>3, <1>4, <1>5, <1>6, <1>7, <1>8 DEF UnderWay
<1>10. QED BY <1>4, <1>9 DEF ReadInv

\* The edges of a burst at which a word comes.
LEMMA WordStep ==
  ASSUME ReadInv, ReadTypes', m_rvalid_i' => Asked', NEW arready \in BOOLEAN, NEW go \in BOOLEAN,
         ReadEdge(arready, go), read_state = 3, go
  PROVE  ReadInv'
<1>1. ReadTypes /\ UnderWay /\ Asked
  BY DEF ReadInv, UnderWay
<1>2. /\ axi_rvalid_i(go) /\ ~transfer_start_i(go) /\ ~burst_start_i(arready) /\ axi_rready_o
      /\ m_rready_o(go) <=> valid
      /\ burst_last(go) <=> pending = 1
  BY <1>1 DEF UnderWay, axi_rvalid_i, axi_rready_o, m_rready_o, transfer_start_i, burst_start_i,
              burst_last, axi_rlast_i
<1>3. UNCHANGED controllerRegs /\ pending' = pending - 1 /\ nextWord' = nextWord + 1
  BY <1>2 DEF ReadEdge, ControllerClock, MemoryClock
<1>4. valid' /\ stored_data' = nextWord /\ (flush' <=> pending = 1 /\ last_transfer_o)
  <2>1. valid' = TRUE /\ stored_data' = nextWord
    BY <1>2, Zenon DEF ReadEdge, AlignClock
  <2>2. flush' <=> pending = 1 /\ last_transfer_o
    BY <1>2 DEF ReadEdge, AlignClock
  <2>3. QED BY <2>1, <2>2
<1>5. PICK got \in Nat, n \in Nat, left \in Nat \ {0} :
        got = Got /\ n = BusWords /\ left = pending
  BY <1>1, WordsToCome DEF ReadTypes
<1>6. got + left <= n /\ (~last_transfer_o => got + left < n /\ n = symbolsToRead_o)
  BY <1>5, WordsToCome
<1>7. symbolsToRead_o \in Nat \ {0} /\ n \in {symbolsToRead_o, symbolsToRead_o + 1}
  <2>1. PICK l \in Nat \ {0} : l = length_i
    BY <1>1 DEF Asked
  <2>2. Ceil(l) \in Nat \ {0}
    BY CeilIs
  <2>3. QED BY <1>1, <1>5, <2>1, <2>2, AskedFacts
<1>8. CASE valid /\ received + 1 = symbolsToRead_o
  <2>1. left = 1 /\ last_transfer_o /\ m_rlast_o(go) /\ m_rready_o(go) /\ m_rvalid_i
    BY <1>1, <1>2, <1>5, <1>8, HandedOver DEF UnderWay
  <2>2. ~m_rvalid_i'
    BY <2>1 DEF ReadEdge, CallerClock
  <2>3. read_state' = 0
    BY <1>2, <1>5, <2>1 DEF ReadEdge, ReadClock, ReadIdle, ReadCompute, ReadAddress, ReadData
  <2>4. pending' = 0 /\ flush'
    BY <1>3, <1>4, <1>5, <2>1
  <2>5. AtRest'
    BY <1>4, <2>2, <2>4 DEF AtRest
  <2>6. QED BY <2>3, <2>5 DEF ReadInv
<1>9. CASE ~(valid /\ received + 1 = symbolsToRead_o)
  <2>1. valid => ~m_rlast_o(go)
    BY <1>1, <1>2, <1>9, HandedOver DEF UnderWay
  <2>2. /\ UNCHANGED <<m_rvalid_i, address_i, length_i>> /\ m_rvalid_i
        /\ received' = IF valid THEN received + 1 ELSE received
    <3>1. m_rvalid_i
      BY <1>1 DEF UnderWay
    <3>2. CASE valid
      BY <1>2, <2>1, <3>1, <3>2 DEF ReadEdge, CallerClock
    <3>3. CASE ~valid
      BY <1>2, <3>1, <3>3 DEF ReadEdge, CallerClock
    <3>4. QED BY <3>1, <3>2, <3>3
  <2>3. received' = got
    BY <1>1, <1>5, <2>2 DEF Got, UnderWay
  <2>4. symbolsRead' = received'
    <3>1. CountSymbol(go)
      <4>1. ReadClock(arready, go)
        BY DEF ReadEdge
      <4>2. ~ReadIdle(go)
        BY DEF ReadIdle
      <4>3. QED BY <4>1, <4>2, Zenon DEF ReadClock, ReadCompute, ReadAddress, ReadData
    <3>2. CASE valid
      BY <1>1, <1>2, <2>2, <3>1, <3>2 DEF CountSymbol, UnderWay
    <3>3. CASE ~valid
      BY <1>1, <1>2, <2>2, <3>1, <3>3 DEF CountSymbol, UnderWay
    <3>4. QED BY <3>2, <3>3
  <2>5. Got' = got + 1 /\ FirstWord' = FirstWord /\ BusWords' = n /\ offset' = offset
        /\ symbolsToRead_o' = symbolsToRead_o
    BY <1>4, <1>5, <2>2, <2>3 DEF Got, FirstWord, BusWords, Ceil, offset, symbolsToRead_o
  <2>6. stored_data' = FirstWord + got /\ nextWord' = FirstWord + (got + 1)
    <3>1. nextWord = FirstWord + got
      BY <1>1, <1>5 DEF UnderWay
    <3>2. FirstWord \in Nat
      BY <1>1, AskedFacts
    <3>3. QED BY <1>3, <1>4, <1>5, <3>1, <3>2
  <2>7. (got + 1) + (left - 1) = got + left
    OBVIOUS
  <2>8. ~last_transfer_o => Covered(got + left)'
    <3>1. SUFFICES ASSUME ~last_transfer_o PROVE Covered(got + left)'
      OBVIOUS
    <3>2. Covered(got + left)
      BY <1>1, <1>5, <3>1 DEF UnderWay
    <3>3. UNCHANGED <<stored_len, first_i_transfer, true_axi_axaddr_o, address_i, length_i>>
      BY <1>3, <2>2 DEF controllerRegs
    <3>4. QED BY <2>5, <3>2, <3>3 DEF Covered
  <2>9. (last_transfer_o' <=> last_transfer_o) /\ pending' = left - 1
    BY <1>3, <1>5 DEF controllerRegs
  <2>10. CASE left > 1
    <3>1. read_state' = 3
      <4>1. pending # 1
        BY <1>5, <2>10
      <4>2. ~burst_last(go)
        BY <1>2, <4>1, Zenon
      <4>3. QED BY <4>2 DEF ReadEdge, ReadClock, ReadIdle, ReadCompute, ReadAddress, ReadData
    <3>2. ~flush'
      BY <1>4, <1>5, <2>10
    <3>3. last_transfer_o => got + left = n
      BY <1>1, <1>5 DEF UnderWay
    <3>4. left - 1 > 0
      BY <2>10
    <3>5. ~last_transfer_o' => Covered(Got + pending)'
      BY <2>5, <2>7, <2>8, <2>9
    <3>6. last_transfer_o' => Got' + pending' = BusWords'
      BY <2>5, <2>7, <2>9, <3>3
    <3>7. UnderWay'
      BY <1>4, <2>2, <2>3, <2>4, <2>5, <2>6, <2>9, <3>1, <3>2, <3>4, <3>5, <3>6 DEF UnderWay
    <3>8. QED BY <3>1, <3>7 DEF ReadInv
  <2>11. CASE left = 1 /\ last_transfer_o
    <3>1. read_state' = 0
      BY <1>2, <1>5, <2>11 DEF ReadEdge, ReadClock, ReadIdle, ReadCompute, ReadAddress, ReadData
    <3>2. got + 1 = n
      BY <1>1, <1>5, <2>11 DEF UnderWay
    <3>3. n = symbolsToRead_o
      <4>1. CASE valid
        <5>1. got = received + 1 /\ received \in Nat /\ received + 1 <= symbolsToRead_o
          BY <1>1, <1>2, <1>5, <4>1, HandedOver DEF Got, UnderWay
        <5>2. QED BY <1>7, <1>9, <3>2, <4>1, <5>1
      <4>2. CASE ~valid
        BY <1>5, <1>7, <3>2, <4>2 DEF Got
      <4>3. QED BY <4>1, <4>2
    <3>4. pending' = 0 /\ flush'
      BY <1>4, <1>5, <2>9, <2>11
    <3>5. AtRest'
      BY <1>4, <2>3, <2>5, <2>6, <3>2, <3>3, <3>4 DEF AtRest
    <3>6. QED BY <3>1, <3>5 DEF ReadInv
  <2>12. CASE left = 1 /\ ~last_transfer_o
    <3>1. read_state' = 1
      BY <1>2, <1>5, <2>12 DEF ReadEdge, ReadClock, ReadIdle, ReadCompute, ReadAddress, ReadData
    <3>2. ~flush' /\ pending' = 0
      BY <1>4, <1>5, <2>9, <2>12
    <3>3. Covered(Got)'
      BY <2>5, <2>8, <2>12
    <3>4. UnderWay'
      BY <1>4, <2>2, <2>3, <2>4, <2>5, <2>6, <3>1, <3>2, <3>3 DEF UnderWay
    <3>5. QED BY <3>1, <3>4 DEF ReadInv
  <2>13. QED BY <2>10, <2>11, <2>12
<1>10. QED BY <1>8, <1>9

LEMMA ReadInductive ==
  ASSUME ReadsFit
  PROVE  ReadInv /\ [ReadNext]_readVars => ReadInv'
<1> SUFFICES ASSUME ReadInv, [ReadNext]_readVars PROVE ReadInv'
  OBVIOUS
<1>1. ASSUME NEW arready \in BOOLEAN, NEW go \in BOOLEAN, ReadEdge(arready, go) PROVE ReadInv'
  <2>1. ReadTypes' /\ (m_rvalid_i' => Asked')
    BY <1>1, ClockKeepsType
  <2>2. CASE read_state = 0
    BY <1>1, <2>1, <2>2, RestStep
  <2>3. CASE read_state \in {1, 2}
    BY <1>1, <2>1, <2>3, AddressStep
  <2>4. CASE read_state = 3 /\ ~go
    BY <1>1, <2>1, <2>4, PauseStep
  <2>5. CASE read_state = 3 /\ go
    BY <1>1, <2>1, <2>5, WordStep
  <2>6. read_state \in 0 .. 3
    BY DEF ReadInv, ReadTypes
  <2>7. QED BY <2>2, <2>3, <2>4, <2>5, <2>6
<1>2. CASE UNCHANGED readVars
  BY <1>2
  DEF ReadInv, ReadTypes, AtRest, UnderWay, Asked, ReadFits, Covered, Got, FirstWord, BusWords,
       Ceil, offset, symbolsToRead_o, true_axi_axlen_o, last_transfer_next_o, last_transfer_o_len,
       storedWords, transfer_byte_size, boundary_transfer_len, first_i_transfer_len, readVars,
       controllerRegs, readRegs, alignRegs
<1>3. QED BY <1>1, <1>2 DEF ReadNext

-----------------------------------------------------------------------------
\* Of every read that the controller cuts right the caller is told last with the
\* word that holds the last byte, neither before nor after
\* (SimpleAXIToAXIRead.v:18-23, 109-113): for all widths, burst lengths and pages, and
\* however the memory pauses.
THEOREM LastToldWithTheLastWord ==
  ASSUME ReadsFit
  PROVE  ReadSpec => []LastOnLastWord
<1>1. ReadInv => LastOnLastWord
  BY HandedOver DEF LastOnLastWord
<1>2. QED BY <1>1, ReadBegins, ReadInductive, PTL DEF ReadSpec

\* The words handed over are the next ones of the same request, each paired with the
\* one behind it when its bytes lie in two (BurstAlign.v:41-190): for the same reads.
THEOREM WordsComeInOrder ==
  ASSUME ReadsFit
  PROVE  ReadSpec => []WordsInOrder
<1>1. ReadInv => WordsInOrder
  <2>1. SUFFICES ASSUME ReadInv, NEW go \in BOOLEAN, m_rvalid_i, m_rready_o(go)
                 PROVE  LET first == FirstWord + received
                            held  == Min2(length_i - received * STROBE_W, STROBE_W)
                        IN /\ m_rdata_o(go).low = first
                           /\ offset + held > STROBE_W => m_rdata_o(go).high = first + 1
    BY DEF WordsInOrder, FirstWord
  <2>2. Asked /\ ReadTypes
    BY <2>1 DEF ReadInv
  <2>4. m_rdata_o(go).low = FirstWord + received
    BY <2>1, HandedOver DEF m_rdata_o
  <2>5. CASE read_state # 0
    BY <2>1, <2>4, <2>5, HandedOver DEF m_rdata_o, axi_rvalid_i
  <2>6. CASE read_state = 0
    <3>1. PICK l \in Nat \ {0}, o \in 0 .. STROBE_W - 1, r \in Nat, n \in Nat :
            l = length_i /\ o = offset /\ r = received /\ n = BusWords
      <4>1. length_i \in Nat \ {0} /\ offset \in 0 .. STROBE_W - 1 /\ received \in Nat
        BY <2>2, AskedFacts DEF Asked, ReadTypes
      <4>2. offset + length_i \in Nat
        BY <4>1, Widths
      <4>3. BusWords \in Nat
        BY <4>2, CeilIs DEF BusWords
      <4>4. QED BY <4>1, <4>3
    <3>2. n = r + 1
      <4>1. flush /\ AtRest
        BY <2>1, <2>6, HandedOver DEF ReadInv
      <4>2. QED BY <2>1, <3>1, <4>1 DEF AtRest
    <3>3. o + l <= STROBE_W * n
      <4>1. n = Ceil(o + l) /\ o + l \in Nat
        BY <3>1, Widths DEF BusWords
      <4>2. QED BY <4>1, CeilIs
    <3>4. o + Min2(l - r * STROBE_W, STROBE_W) <= STROBE_W
      <4>1. CASE STROBE_W = 4 BY <3>2, <3>3, <4>1 DEF Min2
      <4>2. CASE STROBE_W = 8 BY <3>2, <3>3, <4>2 DEF Min2
      <4>3. CASE STROBE_W = 16 BY <3>2, <3>3, <4>3 DEF Min2
      <4>4. CASE STROBE_W = 32 BY <3>2, <3>3, <4>4 DEF Min2
      <4>5. CASE STROBE_W = 64 BY <3>2, <3>3, <4>5 DEF Min2
      <4>6. QED BY <4>1, <4>2, <4>3, <4>4, <4>5, Widths
    <3>5. PICK h \in Int : h = Min2(l - r * STROBE_W, STROBE_W)
      BY Widths, <3>1 DEF Min2
    <3>6. ~(offset + Min2(length_i - received * STROBE_W, STROBE_W) > STROBE_W)
      BY <3>1, <3>4, <3>5, Widths
    <3>7. QED BY <2>4, <3>6
  <2>7. QED BY <2>5, <2>6
<1>2. QED BY <1>1, ReadBegins, ReadInductive, PTL DEF ReadSpec

\* When the caller is released nothing is left to come (SimpleAXIToAXIRead.v:109-113),
\* so that MuxNative may grant the channel at once: for the same reads.
THEOREM ReadsDrain ==
  ASSUME ReadsFit
  PROVE  ReadSpec => ReleasedWhenDrained
<1>1. ASSUME ReadInv, [ReadNext]_readVars, m_rvalid_i, ~m_rvalid_i'
      PROVE  pending' = 0 /\ read_state' = 0
  <2>1. ReadNext
    BY <1>1 DEF readVars
  <2>2. PICK arready \in BOOLEAN, go \in BOOLEAN : ReadEdge(arready, go)
    BY <2>1 DEF ReadNext
  <2>3. m_rready_o(go) /\ m_rlast_o(go)
    BY <1>1, <2>2 DEF ReadEdge, CallerClock
  <2>4. received + 1 = symbolsToRead_o
    BY <1>1, <2>3, HandedOver
  <2>5. CASE read_state = 0
    <3>1. pending = 0 /\ flush
      BY <1>1, <2>3, <2>5, HandedOver DEF ReadInv, AtRest
    <3>2. pending' = 0
      BY <2>2, <2>5, <3>1 DEF ReadEdge, MemoryClock, burst_start_i, axi_rvalid_i
    <3>3. ~transfer_start_i(go)
      BY <2>3 DEF transfer_start_i
    <3>4. read_state' = 0
      BY <2>2, <2>5, <3>3 DEF ReadEdge, ReadClock, ReadIdle, ReadCompute, ReadAddress, ReadData
    <3>5. QED BY <3>2, <3>4
  <2>6. CASE read_state # 0
    <3>1. read_state = 3 /\ go /\ pending = 1 /\ last_transfer_o
      BY <1>1, <2>3, <2>4, <2>6, HandedOver
    <3>2. burst_last(go) /\ axi_rvalid_i(go) /\ axi_rready_o /\ ~burst_start_i(arready)
      BY <3>1 DEF burst_last, axi_rvalid_i, axi_rready_o, axi_rlast_i, burst_start_i
    <3>3. pending' = 0
      <4>1. pending' = pending - 1
        BY <2>2, <3>2, Zenon DEF ReadEdge, MemoryClock
      <4>2. QED BY <3>1, <4>1
    <3>4. read_state' = 0
      BY <2>2, <3>1, <3>2 DEF ReadEdge, ReadClock, ReadIdle, ReadCompute, ReadAddress, ReadData
    <3>5. QED BY <3>3, <3>4
  <2>7. QED BY <2>5, <2>6
<1>2. QED BY <1>1, ReadBegins, ReadInductive, PTL DEF ReadSpec, ReleasedWhenDrained

-----------------------------------------------------------------------------
(* The burst with which a write goes on.                                    *)

\* The requests of a run are writes AXITransferController2 cuts right, and a longest
\* burst has no more words than axlen can say: on buses of 256 and 512 bits the
\* module takes it to be a page whatever AXI_LEN_W is.
WritesFit ==
  /\ const_max_transfer_len <= MaxBeats * STROBE_W
  /\ \A t \in Writes : t \in Nat \X (Nat \ {0}) /\ WriteFits(t)

\* The longest burst of a write, in words.
LEMMA LongestWriteIs ==
  ASSUME const_max_transfer_len <= MaxBeats * STROBE_W
  PROVE  \E m \in 1 .. MaxBeats :
           const_max_transfer_len = STROBE_W * m /\ STROBE_W * m <= Page
<1>1. PICK p \in Nat \ {0} : Page = STROBE_W * p
  BY PageIs
<1>2. MaxBeats * STROBE_W = STROBE_W * MaxBeats
  BY Widths
<1>3. CASE const_max_transfer_len = Page
  <2>1. p \in 1 .. MaxBeats
    BY <1>1, <1>3, Widths
  <2>2. QED BY <1>1, <1>3, <2>1, Widths
<1>4. CASE const_max_transfer_len # Page
  <2>1. const_max_transfer_len = STROBE_W * MaxBeats /\ STROBE_W * MaxBeats <= Page
    BY <1>1, <1>2, <1>4, Widths DEF const_max_transfer_len, Min2
  <2>2. QED BY <2>1, Widths
<1>5. QED BY <1>3, <1>4

\* Where the byte a is within its word and its page.
LEMMA ByteIs ==
  ASSUME NEW a \in Nat
  PROVE  \E k \in Nat, d \in 0 .. STROBE_W - 1, c \in Nat \ {0} :
           /\ a = STROBE_W * k + d
           /\ a \div STROBE_W = k
           /\ misalign_amount(a) = d
           /\ comb_size_to_next_boundary(a) = STROBE_W * c - d
           /\ a % Page = Page - STROBE_W * c + d
           /\ STROBE_W * c <= Page
<1>1. PICK k \in Nat, d \in 0 .. STROBE_W - 1 :
        a = STROBE_W * k + d /\ k = a \div STROBE_W /\ d = a % STROBE_W
  <2>1. CASE STROBE_W = 4 BY <2>1
  <2>2. CASE STROBE_W = 8 BY <2>2
  <2>3. CASE STROBE_W = 16 BY <2>3
  <2>4. CASE STROBE_W = 32 BY <2>4
  <2>5. CASE STROBE_W = 64 BY <2>5
  <2>6. QED BY <2>1, <2>2, <2>3, <2>4, <2>5, Widths
<1>2. PICK c \in Nat \ {0} :
        /\ Page - ((STROBE_W * k) % Page) = STROBE_W * c
        /\ (STROBE_W * k + d) % Page = Page - STROBE_W * c + d
  BY <1>1, PagePlace
<1>3. misalign_amount(a) = d
  BY <1>1 DEF misalign_amount
<1>4. a % Page = Page - STROBE_W * c + d
  BY <1>1, <1>2
<1>5. comb_size_to_next_boundary(a) = STROBE_W * c - d
  <2>1. PICK y \in Nat : y = STROBE_W * c
    BY Widths
  <2>2. Page \in Nat
    BY BusAssumption
  <2>3. Page - (Page - y + d) = y - d
    BY <1>1, <2>1, <2>2, Widths
  <2>4. QED BY <1>4, <2>1, <2>3 DEF comb_size_to_next_boundary
<1>6. STROBE_W * c <= Page
  <2>1. PICK z \in Nat : z = (STROBE_W * k) % Page
    <3>1. STROBE_W * k \in Nat /\ Page \in Nat \ {0}
      BY Widths, BusAssumption
    <3>2. QED BY <3>1
  <2>2. Page \in Nat /\ STROBE_W * c \in Nat
    BY Widths, BusAssumption
  <2>3. QED BY <1>2, <2>1, <2>2
<1>7. QED BY <1>1, <1>3, <1>4, <1>5, <1>6

\* What WriteFits says of the pair.
LEMMA FitsIs ==
  ASSUME NEW a \in Nat, NEW l \in Nat \ {0}
  PROVE  WriteFits(<<a, l>>) <=>
           /\ \A n \in 1 .. (a + l - 1) \div Page :
                ~ /\ n * Page - const_max_transfer_len >= a
                  /\ \/ n * Page - const_max_transfer_len >= a + comb_size_to_next_boundary(a)
                     \/ (n * Page - const_max_transfer_len - (a - misalign_amount(a)))
                          % const_max_transfer_len = 0
           /\ \/ misalign_amount(a) = 0
              \/ misalign_amount(a) + l <= const_max_transfer_len
              \/ l >= Min2(const_max_transfer_len, comb_size_to_next_boundary(a))
<1>1. <<a, l>>[1] = a /\ <<a, l>>[2] = l
  OBVIOUS
<1>2. QED BY <1>1, Zenon DEF WriteFits, StartsBurst

\* Two places of a burst after each other belong to it together.
LEMMA NextPlace ==
  ASSUME NEW h \in Nat \ {0}, NEW x \in Nat, (x - h) % h = 0, x >= h
  PROVE  x % h = 0
<1>1. PICK q \in Nat : x - h = h * q
  <2>1. PICK y \in Nat : y = x - h
    OBVIOUS
  <2>2. y = h * (y \div h) + (y % h) /\ y \div h \in Nat
    OBVIOUS
  <2>3. QED BY <2>1, <2>2
<1>2. x = h * (q + 1) + 0
  BY <1>1
<1>3. QED BY <1>2, Remainder

\* The number of a page boundary is at most that of the page of any byte behind it.
LEMMA PageOf ==
  ASSUME NEW h \in Nat \ {0}, NEW n \in Nat, NEW x \in Nat, h * n <= x
  PROVE  n <= x \div h
<1>1. PICK q \in Nat, r \in 0 .. h - 1 : x = h * q + r /\ q = x \div h
  <2>1. x = h * (x \div h) + (x % h) /\ x \div h \in Nat /\ x % h \in 0 .. h - 1
    OBVIOUS
  <2>2. QED BY <2>1
<1>2. SUFFICES ASSUME n > q PROVE FALSE
  BY <1>1
<1>3. PICK j \in Nat : n = q + 1 + j
  <2>1. n - q - 1 \in Nat /\ n = q + 1 + (n - q - 1)
    BY <1>2
  <2>2. QED BY <2>1
<1>4. h * n = h * q + h + h * j /\ h * j >= 0
  BY <1>3
<1>5. QED BY <1>1, <1>4

\* A burst of the write of l bytes at a covers n of them: all that are left, or those up
\* to the end of the page, or those in as many words as the longest burst has.
CutAt(a, l, n) ==
  /\ out_transfer_offset(a, l) = n
  /\ misalign_amount(a) + n <= const_max_transfer_len
  /\ n <= comb_size_to_next_boundary(a)
  /\ \/ n = l
     \/ /\ n < l
        /\ \/ n = comb_size_to_next_boundary(a)
           \/ /\ n = const_max_transfer_len - misalign_amount(a)
              /\ const_max_transfer_len < comb_size_to_next_boundary(a)

LEMMA CutIs ==
  ASSUME const_max_transfer_len <= MaxBeats * STROBE_W,
         NEW a \in Nat, NEW l \in Nat \ {0}, WriteFits(<<a, l>>)
  PROVE  \E n \in 1 .. l : CutAt(a, l, n)
<1>1. PICK m \in 1 .. MaxBeats : const_max_transfer_len = STROBE_W * m /\ STROBE_W * m <= Page
  BY LongestWriteIs
<1>2. PICK k \in Nat, d \in 0 .. STROBE_W - 1, c \in Nat \ {0} :
        /\ a = STROBE_W * k + d
        /\ a \div STROBE_W = k
        /\ misalign_amount(a) = d
        /\ comb_size_to_next_boundary(a) = STROBE_W * c - d
        /\ a % Page = Page - STROBE_W * c + d
        /\ STROBE_W * c <= Page
  BY ByteIs
<1>3. PICK C \in Nat \ {0} : C = const_max_transfer_len /\ C = STROBE_W * m
  BY <1>1, Widths
<1>4. PICK B \in Nat \ {0} : B = comb_size_to_next_boundary(a) /\ B = STROBE_W * c - d
  BY <1>2, Widths
<1>5. C <= Page /\ B <= Page /\ Page \in Nat
  BY <1>1, <1>2, <1>3, <1>4, Widths, BusAssumption
<1>6. PICK e \in Nat : e = ext_length(l) /\ (l < Page => e = l) /\ (l >= Page => e >= Page)
  BY <1>5, BusAssumption DEF ext_length
<1>7. CASE B < C
  <2>1. d + B <= C
    <3>1. STROBE_W * c <= STROBE_W * m
      BY <1>1, <1>2, <1>3, <1>4, <1>7, Widths
    <3>2. QED BY <1>3, <1>4, <3>1, Widths
  <2>2. CASE e >= B
    <3>1. out_transfer_offset(a, l) = B
      <4>1. is_next_boundary_limited(a, l)
        BY <1>3, <1>4, <1>6, <1>7, <2>2 DEF is_next_boundary_limited
      <4>2. ~is_max_transfer_len_limited(a, l)
        BY <1>3, <1>4, <1>7 DEF is_max_transfer_len_limited
      <4>3. QED BY <1>4, <4>1, <4>2, Zenon DEF out_transfer_offset
    <3>2. B <= l
      BY <1>5, <1>6, <2>2
    <3>3. QED BY <1>2, <1>3, <1>4, <2>1, <3>1, <3>2 DEF CutAt
  <2>3. CASE e < B
    <3>1. ~is_next_boundary_limited(a, l) /\ ~is_max_transfer_len_limited(a, l)
      BY <1>3, <1>4, <1>6, <1>7, <2>3 DEF is_next_boundary_limited, is_max_transfer_len_limited
    <3>2. e = l
      BY <1>5, <1>6, <2>3
    <3>3. out_transfer_offset(a, l) = l
      BY <1>6, <3>1, <3>2 DEF out_transfer_offset
    <3>4. QED BY <1>2, <1>3, <1>4, <2>1, <2>3, <3>2, <3>3, Widths DEF CutAt
  <2>4. QED BY <2>2, <2>3
<1>8. CASE C < B
  <2>1. ~is_next_boundary_limited(a, l)
    BY <1>3, <1>4, <1>8 DEF is_next_boundary_limited
  <2>2. CASE e >= C
    <3>1. is_max_transfer_len_limited(a, l)
      BY <1>3, <1>4, <1>6, <1>8, <2>2 DEF is_max_transfer_len_limited
    <3>2. C <= l /\ d < C /\ STROBE_W <= C
      BY <1>1, <1>2, <1>3, <1>5, <1>6, <2>2, Widths
    <3>3. out_transfer_offset(a, l) = C - d
      <4>1. comb_initial_strb_count(a, l) = STROBE_W - d
        BY <1>2, <3>2, Widths DEF comb_initial_strb_count
      <4>2. STROBE_W - (STROBE_W - d) = d
        BY <1>2, Widths
      <4>3. (IF misalign_amount(a) = 0 THEN 0 ELSE STROBE_W - comb_initial_strb_count(a, l)) = d
        BY <1>2, <4>1, <4>2
      <4>4. QED BY <1>3, <2>1, <3>1, <4>3, Zenon DEF out_transfer_offset
    <3>4. C - d \in 1 .. l /\ d + (C - d) <= C
      BY <1>2, <3>2, Widths
    <3>5. CASE C - d = l
      BY <1>2, <1>3, <1>4, <1>8, <3>3, <3>4, <3>5 DEF CutAt
    <3>6. CASE C - d < l
      BY <1>2, <1>3, <1>4, <1>8, <3>3, <3>4, <3>6 DEF CutAt
    <3>7. QED BY <3>4, <3>5, <3>6, <1>3, <1>2, Widths
  <2>3. CASE e < C
    <3>1. ~is_max_transfer_len_limited(a, l)
      BY <1>3, <1>6, <2>3 DEF is_max_transfer_len_limited
    <3>2. e = l
      BY <1>5, <1>6, <2>3
    <3>3. out_transfer_offset(a, l) = l
      BY <1>6, <2>1, <3>1, <3>2 DEF out_transfer_offset
    <3>4. d = 0 \/ d + l <= C
      <4>1. ~(l >= Min2(C, B))
        BY <1>8, <2>3, <3>2 DEF Min2
      <4>2. QED BY <1>2, <1>3, <1>4, <4>1, FitsIs
    <3>5. d + l <= C
      BY <1>2, <2>3, <3>2, <3>4, Widths
    <3>6. QED BY <1>2, <1>3, <1>4, <1>8, <2>3, <3>2, <3>3, <3>5 DEF CutAt
  <2>4. QED BY <2>2, <2>3
<1>9. CASE B = C
  <2>1. ~is_next_boundary_limited(a, l) /\ ~is_max_transfer_len_limited(a, l)
    BY <1>3, <1>4, <1>9 DEF is_next_boundary_limited, is_max_transfer_len_limited
  <2>2. d = 0
    BY <1>1, <1>2, <1>3, <1>4, <1>9, Widths
  <2>3. l <= C
    <3>1. SUFFICES ASSUME l > C PROVE FALSE
      OBVIOUS
    <3>2. PICK n \in Nat \ {0} : n * Page - C = a
      <4>1. PICK q \in Nat, r \in Nat : a = Page * q + r /\ r = a % Page
        <5>1. Page \in Nat \ {0}
          BY BusAssumption
        <5>2. a = Page * (a \div Page) + (a % Page) /\ a \div Page \in Nat /\ a % Page \in Nat
          BY <5>1
        <5>3. QED BY <5>2
      <4>2. r = Page - C
        <5>1. PICK y \in Nat : y = STROBE_W * c
          BY Widths
        <5>2. r = Page - STROBE_W * c + d
          BY <1>2, <4>1, Zenon
        <5>3. r = Page - y + 0 /\ B = y - 0
          BY <1>4, <2>2, <5>1, <5>2, Zenon
        <5>4. QED BY <1>5, <1>9, <5>1, <5>3
      <4>3. PICK z \in Nat : z = Page * q
        BY <4>1, <1>5
      <4>4. (q + 1) * Page = z + Page
        BY <4>1, <4>3, <1>5
      <4>5. (q + 1) * Page - C = a
        <5>1. a = z + Page - C
          BY <4>1, <4>2, <4>3
        <5>2. QED BY <1>5, <4>3, <4>4, <5>1
      <4>6. QED BY <4>1, <4>5
    <3>3. n \in 1 .. (a + l - 1) \div Page
      <4>1. Page * n <= a + l - 1
        BY <1>5, <3>1, <3>2
      <4>2. n <= (a + l - 1) \div Page
        BY <4>1, PageOf, BusAssumption
      <4>3. (a + l - 1) \div Page \in Nat
        BY BusAssumption
      <4>4. QED BY <4>2, <4>3
    <3>4. (n * Page - C - (a - misalign_amount(a))) % C = 0
      BY <1>2, <1>3, <2>2, <3>2
    <3>5. QED BY <1>3, <3>2, <3>3, <3>4, FitsIs
  <2>4. e = l
    <3>1. CASE l < Page BY <1>6, <3>1
    <3>2. CASE l >= Page
      <4>1. l = Page
        BY <1>5, <2>3, <3>2
      <4>2. Page % Page = 0
        BY BusAssumption
      <4>3. QED BY <1>5, <1>6, <4>1, <4>2 DEF ext_length
    <3>3. QED BY <1>5, <3>1, <3>2
  <2>5. out_transfer_offset(a, l) = l
    BY <1>6, <2>1, <2>4 DEF out_transfer_offset
  <2>6. QED BY <1>2, <1>3, <1>4, <1>9, <2>2, <2>3, <2>5 DEF CutAt
<1>10. QED BY <1>7, <1>8, <1>9

\* The beats of the burst hold its bytes, and those of a burst but the last are full.
LEMMA BeatsAre ==
  ASSUME const_max_transfer_len <= MaxBeats * STROBE_W,
         NEW a \in Nat, NEW l \in Nat \ {0}, NEW n \in 1 .. l, CutAt(a, l, n)
  PROVE  \E e \in 1 .. MaxBeats :
           /\ out_axi_axlen(a, l) = e - 1
           /\ e = Ceil(misalign_amount(a) + n)
           /\ n < l => misalign_amount(a) + n = STROBE_W * e
<1>1. PICK m \in 1 .. MaxBeats : const_max_transfer_len = STROBE_W * m /\ STROBE_W * m <= Page
  BY LongestWriteIs
<1>2. PICK k \in Nat, d \in 0 .. STROBE_W - 1, c \in Nat \ {0} :
        /\ a = STROBE_W * k + d
        /\ misalign_amount(a) = d
        /\ comb_size_to_next_boundary(a) = STROBE_W * c - d
        /\ a % Page = Page - STROBE_W * c + d
        /\ STROBE_W * c <= Page
  BY ByteIs
<1>3. PICK e \in Nat :
        e = Ceil(d + n) /\ d + n <= STROBE_W * e /\ e > 0 /\ STROBE_W * e < d + n + STROBE_W
  <2>1. d + n \in Nat /\ d + n > 0
    BY Widths
  <2>2. QED BY <2>1, CeilIs
<1>4. e <= m
  <2>1. d + n <= STROBE_W * m
    BY <1>1, <1>2 DEF CutAt
  <2>2. QED BY <1>3, <2>1, Widths
<1>5. beatsNeeded(a, l) = e
  <2>1. out_transfer_offset(a, l) = n
    BY DEF CutAt
  <2>2. n + d + STROBE_W - 1 = d + n + STROBE_W - 1
    BY Widths
  <2>3. QED BY <1>2, <1>3, <2>1, <2>2 DEF beatsNeeded, Ceil
<1>6. out_axi_axlen(a, l) = e - 1
  <2>1. CASE e >= 256
    <3>1. MaxBeats = 256 /\ e = 256
      BY <1>4, <2>1, Widths
    <3>2. QED BY <1>5, <2>1, <3>1 DEF out_axi_axlen
  <2>2. CASE e < 256
    <3>1. out_axi_axlen(a, l) = (e - 1) % MaxBeats
      BY <1>5, <2>2 DEF out_axi_axlen
    <3>2. (e - 1) % MaxBeats = e - 1
      BY <1>3, <1>4, Widths
    <3>3. QED BY <3>1, <3>2
  <2>3. QED BY <2>1, <2>2
<1>7. ASSUME n < l PROVE d + n = STROBE_W * e
  <2>1. d + n = STROBE_W * c \/ d + n = STROBE_W * m
    BY <1>1, <1>2, <1>7, Widths DEF CutAt
  <2>2. QED BY <1>3, <2>1, Widths
<1>8. e \in 1 .. MaxBeats
  BY <1>3, <1>4, Widths
<1>9. QED BY <1>2, <1>3, <1>6, <1>7, <1>8

\* What is left after the burst is cut right as well, and starts at a word.
LEMMA RestFits ==
  ASSUME const_max_transfer_len <= MaxBeats * STROBE_W,
         NEW a \in Nat, NEW l \in Nat \ {0}, NEW n \in 1 .. l, CutAt(a, l, n),
         WriteFits(<<a, l>>), n < l
  PROVE  misalign_amount(a + n) = 0 /\ WriteFits(<<a + n, l - n>>)
<1>1. PICK m \in 1 .. MaxBeats : const_max_transfer_len = STROBE_W * m /\ STROBE_W * m <= Page
  BY LongestWriteIs
<1>2. PICK k \in Nat, d \in 0 .. STROBE_W - 1, c \in Nat \ {0} :
        /\ a = STROBE_W * k + d
        /\ misalign_amount(a) = d
        /\ comb_size_to_next_boundary(a) = STROBE_W * c - d
        /\ a % Page = Page - STROBE_W * c + d
        /\ STROBE_W * c <= Page
  BY ByteIs
<1>3. PICK C \in Nat \ {0} : C = const_max_transfer_len /\ C = STROBE_W * m
  BY <1>1, Widths
<1>4. PICK B \in Nat \ {0} : B = comb_size_to_next_boundary(a) /\ B = STROBE_W * c - d
  BY <1>2, Widths
<1>5. PICK r \in Nat \ {0} : r = l - n
  OBVIOUS
<1>6. PICK b \in Nat : b = a + n
  OBVIOUS
<1>7. misalign_amount(b) = 0
  <2>1. PICK j \in Nat : b = STROBE_W * j
    <3>1. b = STROBE_W * (k + c) \/ b = STROBE_W * (k + m)
      BY <1>2, <1>3, <1>4, <1>6, Widths DEF CutAt
    <3>2. QED BY <3>1, <1>1
  <2>2. STROBE_W * j + 0 = b /\ (STROBE_W * j + 0) % STROBE_W = 0
    <3>1. STROBE_W \in Nat \ {0} /\ 0 \in 0 .. STROBE_W - 1
      BY Widths
    <3>2. (STROBE_W * j + 0) % STROBE_W = 0
      BY <3>1, Remainder
    <3>3. STROBE_W * j + 0 = STROBE_W * j
      BY Widths
    <3>4. QED BY <2>1, <3>2, <3>3
  <2>3. QED BY <2>2 DEF misalign_amount
<1>8. \A x \in Int :
        (x >= b /\ (\/ x >= b + comb_size_to_next_boundary(b)
                    \/ (x - (b - misalign_amount(b))) % C = 0))
          => (x >= a /\ (\/ x >= a + B
                         \/ (x - (a - d)) % C = 0))
  <2>1. TAKE x \in Int
  <2>2. HAVE x >= b /\ (\/ x >= b + comb_size_to_next_boundary(b)
                        \/ (x - (b - misalign_amount(b))) % C = 0)
  <2>3. x >= a
    BY <1>6, <2>2
  <2>4. CASE n = B
    BY <1>6, <2>2, <2>3, <2>4
  <2>5. CASE n = C - d /\ C < B
    <3>1. PICK y \in Nat : y = a % Page /\ y + B = Page
      <4>1. PICK z \in Nat : z = STROBE_W * c
        BY Widths
      <4>2. a % Page \in Nat /\ Page \in Nat
        BY BusAssumption
      <4>3. a % Page = Page - z + d /\ B = z - d
        BY <1>2, <1>4, <4>1, Zenon
      <4>4. QED BY <4>1, <4>2, <4>3, Widths
    <3>2. b % Page = y + n
      <4>1. PICK q \in Nat : a = Page * q + y
        <5>1. a = Page * (a \div Page) + (a % Page) /\ a \div Page \in Nat
          BY BusAssumption
        <5>2. QED BY <3>1, <5>1
      <4>2. PICK z : z = y + n
        OBVIOUS
      <4>3. z \in 0 .. Page - 1 /\ Page \in Nat \ {0}
        BY <1>3, <2>5, <3>1, <4>2, Widths, BusAssumption
      <4>4. (Page * q + z) % Page = z
        BY <4>3, Remainder
      <4>5. Page * q + z = b
        <5>1. PICK w \in Nat : w = Page * q
          BY <4>3
        <5>2. QED BY <1>6, <3>1, <4>1, <4>2, <5>1
      <4>6. QED BY <4>2, <4>4, <4>5
    <3>3. b + comb_size_to_next_boundary(b) = a + B
      BY <1>6, <3>1, <3>2, BusAssumption DEF comb_size_to_next_boundary
    <3>4. CASE x >= b + comb_size_to_next_boundary(b)
      BY <2>3, <3>3, <3>4
    <3>5. CASE (x - (b - misalign_amount(b))) % C = 0
      <4>1. PICK v \in Nat : v = x - (a - d) /\ v >= C
        BY <1>2, <1>6, <2>2, <2>5, Widths
      <4>2. v - C = x - (b - misalign_amount(b))
        BY <1>2, <1>6, <1>7, <2>5, <4>1, Widths
      <4>3. v % C = 0
        BY <3>5, <4>1, <4>2, NextPlace
      <4>4. QED BY <2>3, <4>1, <4>3
    <3>6. QED BY <2>2, <3>4, <3>5
  <2>6. QED BY <1>2, <1>3, <1>4, <2>4, <2>5 DEF CutAt
<1>9. WriteFits(<<b, r>>)
  <2>1. b + r - 1 = a + l - 1
    BY <1>5, <1>6
  <2>2. ASSUME NEW i \in 1 .. (b + r - 1) \div Page
        PROVE  ~ /\ i * Page - C >= b
                 /\ \/ i * Page - C >= b + comb_size_to_next_boundary(b)
                    \/ (i * Page - C - (b - misalign_amount(b))) % C = 0
    <3>1. PICK x \in Int : x = i * Page - C
      <4>1. Page \in Nat
        BY BusAssumption
      <4>2. QED BY <4>1
    <3>2. i \in 1 .. (a + l - 1) \div Page
      BY <2>1
    <3>3. ~ /\ i * Page - C >= a
            /\ \/ i * Page - C >= a + B
               \/ (i * Page - C - (a - d)) % C = 0
      BY <1>2, <1>3, <1>4, <3>2, FitsIs, Zenon
    <3>4. QED BY <1>8, <3>1, <3>3, Zenon
  <2>3. QED BY <1>3, <1>7, <2>2, FitsIs
<1>10. QED BY <1>5, <1>6, <1>7, <1>9

\* The byte of the burst, counted from the start of its first word, with which its k-th
\* beat starts.
From(a, k) == IF k = 0 THEN misalign_amount(a) ELSE STROBE_W * k

\* The lanes of the k-th beat that hold bytes of the burst.
BeatLanes(a, n, k) ==
  {i \in Lanes : STROBE_W * k + i >= From(a, k) /\ STROBE_W * k + i < misalign_amount(a) + n}

\* The strobes of the first beat, of a beat in between and of the last one are these lanes.
LEMMA FirstStrobe ==
  ASSUME const_max_transfer_len <= MaxBeats * STROBE_W,
         NEW a \in Nat, NEW l \in Nat \ {0}, NEW n \in 1 .. l, CutAt(a, l, n)
  PROVE  out_initial_strb(a, l) = BeatLanes(a, n, 0)
<1>1. PICK e \in 1 .. MaxBeats :
        /\ out_axi_axlen(a, l) = e - 1
        /\ e = Ceil(misalign_amount(a) + n)
        /\ n < l => misalign_amount(a) + n = STROBE_W * e
  BY BeatsAre
<1>2. PICK d \in 0 .. STROBE_W - 1 : d = misalign_amount(a)
  BY Widths DEF misalign_amount
<1>3. ASSUME NEW i \in Lanes
      PROVE  (i >= d /\ i < d + comb_initial_strb_count(a, l)) <=> (i >= d /\ i < d + n)
  <2>1. i \in 0 .. STROBE_W - 1
    BY DEF Lanes
  <2>2. CASE l >= STROBE_W - d
    <3>1. comb_initial_strb_count(a, l) = STROBE_W - d
      BY <1>2, <2>2, Widths DEF comb_initial_strb_count
    <3>2. d + n >= STROBE_W
      BY <1>1, <1>2, <2>2, Widths
    <3>3. QED BY <2>1, <3>1, <3>2, Widths
  <2>3. CASE l < STROBE_W - d
    <3>1. n = l
      BY <1>1, <1>2, <2>3, Widths
    <3>2. comb_initial_strb_count(a, l) = l
      BY <1>2, <2>3, Widths DEF comb_initial_strb_count
    <3>3. QED BY <3>1, <3>2
  <2>4. QED BY <2>2, <2>3, Widths
<1>4. \A i \in Lanes : STROBE_W * 0 + i = i
  BY Widths DEF Lanes
<1>5. From(a, 0) = d
  BY <1>2 DEF From
<1>6. QED BY <1>2, <1>3, <1>4, <1>5 DEF out_initial_strb, BeatLanes

LEMMA MiddleStrobe ==
  ASSUME const_max_transfer_len <= MaxBeats * STROBE_W,
         NEW a \in Nat, NEW l \in Nat \ {0}, NEW n \in 1 .. l, CutAt(a, l, n),
         NEW k \in Nat \ {0}, k < out_axi_axlen(a, l)
  PROVE  Lanes = BeatLanes(a, n, k)
<1>1. PICK e \in 1 .. MaxBeats :
        /\ out_axi_axlen(a, l) = e - 1
        /\ e = Ceil(misalign_amount(a) + n)
        /\ n < l => misalign_amount(a) + n = STROBE_W * e
  BY BeatsAre
<1>2. PICK d \in 0 .. STROBE_W - 1 : d = misalign_amount(a)
  BY Widths DEF misalign_amount
<1>3. STROBE_W * e < d + n + STROBE_W
  BY <1>1, <1>2, CeilIs, Widths
<1>4. ASSUME NEW i \in Lanes
      PROVE  STROBE_W * k + i >= From(a, k) /\ STROBE_W * k + i < d + n
  <2>1. i \in 0 .. STROBE_W - 1 /\ From(a, k) = STROBE_W * k
    BY DEF Lanes, From
  <2>2. k + 2 <= e
    BY <1>1, Widths
  <2>3. QED BY <1>3, <2>1, <2>2, Widths
<1>5. QED BY <1>2, <1>4 DEF BeatLanes

LEMMA LastStrobe ==
  ASSUME const_max_transfer_len <= MaxBeats * STROBE_W,
         NEW a \in Nat, NEW l \in Nat \ {0}, NEW n \in 1 .. l, CutAt(a, l, n),
         out_axi_axlen(a, l) > 0
  PROVE  out_final_strb(a, l) = BeatLanes(a, n, out_axi_axlen(a, l))
<1>1. PICK e \in 1 .. MaxBeats :
        /\ out_axi_axlen(a, l) = e - 1
        /\ e = Ceil(misalign_amount(a) + n)
        /\ n < l => misalign_amount(a) + n = STROBE_W * e
  BY BeatsAre
<1>2. PICK d \in 0 .. STROBE_W - 1 : d = misalign_amount(a)
  BY Widths DEF misalign_amount
<1>3. d + n <= STROBE_W * e /\ STROBE_W * e < d + n + STROBE_W
  BY <1>1, <1>2, CeilIs, Widths
<1>4. PICK k \in Nat \ {0} : k = e - 1 /\ k = out_axi_axlen(a, l)
  BY <1>1, Widths
<1>5. comb_initial_strb_count(a, l) = STROBE_W - d
  <2>1. l >= STROBE_W - d
    BY <1>3, <1>4, Widths
  <2>2. QED BY <1>2, <2>1 DEF comb_initial_strb_count
<1>6. PICK x \in 1 .. STROBE_W : d + n = STROBE_W * k + x
  BY <1>3, <1>4, Widths
<1>7. offset_remaining(a, l) = IF x = STROBE_W THEN 0 ELSE x
  <2>1. offset_remaining(a, l) = (n - (STROBE_W - d)) % STROBE_W
    BY <1>5 DEF offset_remaining, CutAt
  <2>2. n - (STROBE_W - d) = STROBE_W * (k - 1) + x
    BY <1>2, <1>4, <1>6, Widths
  <2>3. CASE x = STROBE_W
    <3>1. STROBE_W * (k - 1) + x = STROBE_W * k + 0
      BY <1>4, <2>3, Widths
    <3>2. (STROBE_W * k + 0) % STROBE_W = 0
      <4>1. STROBE_W \in Nat \ {0} /\ 0 \in 0 .. STROBE_W - 1
        BY Widths
      <4>2. QED BY <4>1, Remainder
    <3>3. QED BY <2>1, <2>2, <2>3, <3>1, <3>2
  <2>4. CASE x # STROBE_W
    <3>1. (STROBE_W * (k - 1) + x) % STROBE_W = x
      <4>1. STROBE_W \in Nat \ {0} /\ x \in 0 .. STROBE_W - 1 /\ k - 1 \in Nat
        BY <1>6, <2>4, Widths
      <4>2. QED BY <4>1, Remainder
    <3>2. QED BY <2>1, <2>2, <2>4, <3>1
  <2>5. QED BY <2>3, <2>4
<1>8. ASSUME NEW i \in Lanes
      PROVE  /\ STROBE_W * k + i >= From(a, k)
             /\ STROBE_W * k + i < d + n <=> i < x
  <2>1. i \in 0 .. STROBE_W - 1 /\ From(a, k) = STROBE_W * k
    BY DEF Lanes, From
  <2>2. QED BY <1>6, <2>1, Widths
<1>9. BeatLanes(a, n, k) = {i \in Lanes : i < x}
  BY <1>2, <1>8 DEF BeatLanes
<1>10. CASE x = STROBE_W
  <2>1. {i \in Lanes : i < x} = Lanes
    BY <1>10 DEF Lanes
  <2>2. out_final_strb(a, l) = Lanes
    BY <1>7, <1>10 DEF out_final_strb
  <2>3. QED BY <1>4, <1>9, <2>1, <2>2
<1>11. CASE x # STROBE_W
  <2>1. out_final_strb(a, l) = {i \in Lanes : i < x}
    BY <1>6, <1>7, <1>11 DEF out_final_strb
  <2>2. QED BY <1>4, <1>9, <2>1
<1>12. QED BY <1>10, <1>11

\* How many they are.
LEMMA LanesCount ==
  ASSUME NEW a \in Nat, NEW n \in Nat, NEW k \in Nat,
         From(a, k) < misalign_amount(a) + n
  PROVE  /\ IsFiniteSet(BeatLanes(a, n, k))
         /\ Cardinality(BeatLanes(a, n, k)) =
              Min2(STROBE_W * k + STROBE_W, misalign_amount(a) + n) - From(a, k)
<1>1. PICK d \in 0 .. STROBE_W - 1 : d = misalign_amount(a)
  BY Widths DEF misalign_amount
<1>2. PICK f \in 0 .. STROBE_W - 1 : From(a, k) = STROBE_W * k + f
  <2>1. CASE k = 0
    BY <1>1, <2>1, Widths DEF From
  <2>2. CASE k # 0
    BY <2>2, Widths DEF From
  <2>3. QED BY <2>1, <2>2
<1>3. PICK t \in 1 .. STROBE_W : STROBE_W * k + t = Min2(STROBE_W * k + STROBE_W, d + n)
  <2>1. CASE STROBE_W * k + STROBE_W < d + n
    BY <2>1, Widths DEF Min2
  <2>2. CASE ~(STROBE_W * k + STROBE_W < d + n)
    <3>1. PICK t \in 1 .. STROBE_W : t = d + n - STROBE_W * k
      BY <1>1, <1>2, <2>2, Widths
    <3>2. STROBE_W * k + t = d + n
      BY <3>1, Widths
    <3>3. QED BY <2>2, <3>2 DEF Min2
  <2>3. QED BY <2>1, <2>2
<1>4. BeatLanes(a, n, k) = f .. t - 1
  <2>1. ASSUME NEW i \in Lanes
        PROVE  (STROBE_W * k + i >= From(a, k) /\ STROBE_W * k + i < d + n) <=> i \in f .. t - 1
    <3>1. i \in 0 .. STROBE_W - 1
      BY DEF Lanes
    <3>2. QED BY <1>2, <1>3, <3>1, Widths DEF Min2
  <2>2. f .. t - 1 \subseteq Lanes
    BY <1>2, <1>3, Widths DEF Lanes
  <2>3. QED BY <1>1, <2>1, <2>2 DEF BeatLanes
<1>5. IsFiniteSet(f .. t - 1) /\ Cardinality(f .. t - 1) = IF f > t - 1 THEN 0 ELSE t - 1 - f + 1
  BY FS_Interval, Widths
<1>6. f < t
  BY <1>1, <1>2, <1>3, Widths DEF Min2
<1>7. t - f = Min2(STROBE_W * k + STROBE_W, d + n) - From(a, k)
  BY <1>2, <1>3, Widths
<1>8. QED BY <1>1, <1>4, <1>5, <1>6, <1>7, Widths

-----------------------------------------------------------------------------
(* The invariant of the write side.                                         *)

\* A write stands before a burst: g words went out in the bursts before, and what is
\* left of the request is what the burst starts with.
StandsAt(g) ==
  /\ reg_stored_offset = misalign_amount(request[1])
  /\ reg_length # 0
  /\ reg_address + reg_length = request[1] + request[2]
  /\ WriteFits(<<reg_address, reg_length>>)
  /\ g \in Nat
  /\ reg_address - misalign_amount(reg_address) = STROBE_W * (request[1] \div STROBE_W + g)
  /\ IF g = 0 THEN reg_address = request[1] ELSE misalign_amount(reg_address) = 0

\* A burst is about to put its reg_counter-th beat on the bus.
InBurst ==
  /\ reg_counter <= axi_awlen_o
  /\ axi_wstrb_o =
       BeatLanes(reg_address, out_transfer_offset(reg_address, reg_length), reg_counter)
  /\ covered = reg_address - request[1] + From(reg_address, reg_counter)
                 - misalign_amount(reg_address)

WriteInv ==
  /\ WriteTypeOK
  /\ request = None => reg_state = 0
  /\ (request # None /\ reg_state = 0) => taken = 0 /\ covered = 0
  /\ (reg_state # 0 /\ taken > 0) => stored_word = taken - 1
  /\ reg_state \in {1, 2} => StandsAt(taken) /\ covered = reg_address - request[1]
  /\ reg_state = 3 => StandsAt(taken - reg_counter) /\ InBurst

LEMMA WriteBegins == WriteInit => WriteInv
<1>1. 0 \in 0 .. MaxBeats - 1 /\ 0 \in Lanes
  BY Widths DEF Lanes
<1>2. QED BY <1>1 DEF WriteInit, WriteInv, WriteTypeOK

\* What the caller asked for.
LEMMA RequestIs ==
  ASSUME WritesFit, WriteInv, request # None
  PROVE  /\ request \in Writes
         /\ request[1] \in Nat
         /\ request[2] \in Nat \ {0}
         /\ WriteFits(<<request[1], request[2]>>)
<1>1. request \in Writes
  BY DEF WriteInv, WriteTypeOK
<1>2. request \in Nat \X (Nat \ {0}) /\ WriteFits(request)
  BY <1>1 DEF WritesFit
<1>3. request = <<request[1], request[2]>>
  BY <1>2
<1>4. WriteFits(<<request[1], request[2]>>)
  BY <1>2, <1>3
<1>5. QED BY <1>1, <1>2, <1>4

\* The burst under way, the place of its beat and the bytes this writes.
BeatIs(n, e, d, x) ==
  /\ CutAt(reg_address, reg_length, n)
  /\ axi_awlen_o = e - 1
  /\ e = Ceil(d + n)
  /\ n < reg_length => d + n = STROBE_W * e
  /\ d = misalign_amount(reg_address)
  /\ STROBE_W * (e - 1) < d + n /\ d + n <= STROBE_W * e
  /\ x = Cardinality(axi_wstrb_o)
  /\ covered + x = reg_address - request[1]
                     + Min2(STROBE_W * reg_counter + STROBE_W, d + n) - d

LEMMA BeatFacts ==
  ASSUME WritesFit, WriteInv, reg_state = 3
  PROVE  \E n \in 1 .. reg_length, e \in 1 .. MaxBeats, d \in 0 .. STROBE_W - 1, x \in Nat :
           BeatIs(n, e, d, x)
<1>1. request # None /\ StandsAt(taken - reg_counter) /\ InBurst
  BY DEF WriteInv
<1>2. /\ reg_address \in Nat
      /\ reg_length \in Nat \ {0}
      /\ WriteFits(<<reg_address, reg_length>>)
      /\ const_max_transfer_len <= MaxBeats * STROBE_W
  BY <1>1 DEF StandsAt, WriteInv, WriteTypeOK, WritesFit
<1>3. PICK n \in 1 .. reg_length : CutAt(reg_address, reg_length, n)
  BY <1>2, CutIs
<1>4. PICK e \in 1 .. MaxBeats :
        /\ out_axi_axlen(reg_address, reg_length) = e - 1
        /\ e = Ceil(misalign_amount(reg_address) + n)
        /\ n < reg_length => misalign_amount(reg_address) + n = STROBE_W * e
  BY <1>2, <1>3, BeatsAre
<1>5. PICK d \in 0 .. STROBE_W - 1 : d = misalign_amount(reg_address)
  BY <1>2, Widths DEF misalign_amount
<1>6. d + n <= STROBE_W * e /\ STROBE_W * e < d + n + STROBE_W
  BY <1>4, <1>5, CeilIs, Widths
<1>7. STROBE_W * (e - 1) < d + n
  BY <1>6, Widths
<1>8. PICK k \in Nat : k = reg_counter /\ k <= e - 1
  BY <1>1, <1>4, Widths DEF InBurst, axi_awlen_o, WriteInv, WriteTypeOK
<1>9. From(reg_address, k) \in Nat /\ From(reg_address, k) < d + n
  <2>1. CASE k = 0
    BY <1>5, <2>1, Widths DEF From
  <2>2. CASE k # 0
    <3>1. STROBE_W * k <= STROBE_W * (e - 1)
      BY <1>8, Widths
    <3>2. STROBE_W * k \in Nat /\ From(reg_address, k) = STROBE_W * k
      BY <2>2, Widths DEF From
    <3>3. QED BY <1>7, <3>1, <3>2, Widths
  <2>3. QED BY <2>1, <2>2
<1>10. axi_wstrb_o = BeatLanes(reg_address, n, k)
  BY <1>1, <1>3, <1>8 DEF InBurst, CutAt
<1>11. PICK m \in Nat : m = Min2(STROBE_W * k + STROBE_W, d + n)
  BY <1>5, Widths DEF Min2
<1>12. Cardinality(axi_wstrb_o) = m - From(reg_address, k) /\ IsFiniteSet(axi_wstrb_o)
  BY <1>2, <1>5, <1>9, <1>10, <1>11, LanesCount
<1>13. PICK x \in Nat : x = Cardinality(axi_wstrb_o)
  BY <1>12, FS_CardinalityType
<1>14. covered + x = reg_address - request[1] + m - d
  <2>1. covered = reg_address - request[1] + From(reg_address, k) - d
    BY <1>1, <1>5, <1>8 DEF InBurst
  <2>2. request[1] \in Nat
    BY <1>1, RequestIs
  <2>3. QED BY <1>2, <1>5, <1>9, <1>11, <1>12, <1>13, <2>1, <2>2
<1>15. BeatIs(n, e, d, x)
  BY <1>3, <1>4, <1>5, <1>6, <1>7, <1>8, <1>11, <1>13, <1>14 DEF BeatIs, axi_awlen_o
<1>16. QED BY <1>15

-----------------------------------------------------------------------------
(* The steps.                                                               *)

\* A clock edge at which no beat goes out leaves the request, its words and its bytes.
LEMMA NoBeat ==
  ASSUME NEW hasData \in BOOLEAN, NEW awready \in BOOLEAN, NEW wready \in BOOLEAN,
         WriteEdge(hasData, awready, wready), request # None, ~Beat(hasData, wready)
  PROVE  UNCHANGED <<request, taken, covered, stored_word>>
<1>1. ~(m_wvalid_i(hasData) /\ m_wready_o(wready))
  BY DEF WriteEdge, Beat, axi_wvalid_o, m_wvalid_i, m_wready_o, state_transfer_running
<1>2. ~m_wlast_o(hasData, wready)
  BY DEF m_wlast_o
<1>3. QED BY <1>1, <1>2 DEF WriteEdge, SourceClock, SplitClock

\* Without a request the write rests.
LEMMA RestKeeps ==
  ASSUME WriteInv, request = None,
         NEW hasData \in BOOLEAN, NEW awready \in BOOLEAN, NEW wready \in BOOLEAN,
         WriteEdge(hasData, awready, wready)
  PROVE  WriteInv'
<1>1. reg_state = 0 /\ ~m_wvalid_i(hasData)
  BY DEF WriteInv, m_wvalid_i
<1>2. UNCHANGED writeRegs
  <2>1. WriteIdle(hasData)
    BY <1>1 DEF WriteEdge, WriteClock, WriteStart, WriteAddress, WriteData
  <2>2. QED BY <1>1, <2>1, Zenon DEF WriteIdle, writeRegs
<1>3. UNCHANGED stored_word
  BY <1>1 DEF WriteEdge, SplitClock, Beat, axi_wvalid_o
<1>4. request' \in Writes \cup {None} /\ taken' = 0 /\ covered' = 0
  BY DEF WriteEdge, SourceClock
<1>5. reg_state' = 0
  BY <1>1, <1>2 DEF writeRegs
<1>6. WriteTypeOK'
  BY <1>2, <1>3, <1>4 DEF WriteInv, WriteTypeOK, writeRegs
<1>7. QED BY <1>4, <1>5, <1>6 DEF WriteInv

\* The request is accepted with the first word of its stream.
LEMMA IdleKeeps ==
  ASSUME WritesFit, WriteInv, request # None, reg_state = 0,
         NEW hasData \in BOOLEAN, NEW awready \in BOOLEAN, NEW wready \in BOOLEAN,
         WriteEdge(hasData, awready, wready)
  PROVE  WriteInv'
<1>1. ~Beat(hasData, wready)
  BY DEF Beat, axi_wvalid_o, state_transfer_running
<1>2. UNCHANGED <<request, taken, covered, stored_word>>
  BY <1>1, NoBeat
<1>3. WriteIdle(hasData)
  BY DEF WriteEdge, WriteClock, WriteStart, WriteAddress, WriteData
<1>4. PICK A \in Nat, L \in Nat \ {0} : A = request[1] /\ L = request[2] /\ WriteFits(<<A, L>>)
  BY RequestIs
<1>5. taken = 0 /\ covered = 0 /\ UNCHANGED <<reg_counter, axi_wstrb_o>>
  BY <1>3 DEF WriteInv, WriteIdle
<1>6. CASE ~m_wvalid_i(hasData)
  <2>1. UNCHANGED <<reg_state, reg_stored_offset, reg_address, reg_length>>
    BY <1>3, <1>6 DEF WriteIdle
  <2>2. QED BY <1>2, <1>5, <2>1 DEF WriteInv, WriteTypeOK
<1>7. CASE m_wvalid_i(hasData)
  <2>1. /\ reg_state' = 1
        /\ reg_stored_offset' = misalign_amount(A)
        /\ reg_address' = A
        /\ reg_length' = L
    BY <1>3, <1>4, <1>7 DEF WriteIdle
  <2>2. misalign_amount(A) \in Lanes /\ A - misalign_amount(A) = STROBE_W * (A \div STROBE_W + 0)
    <3>1. PICK k \in Nat, d \in 0 .. STROBE_W - 1, c \in Nat \ {0} :
            /\ A = STROBE_W * k + d
            /\ A \div STROBE_W = k
            /\ misalign_amount(A) = d
            /\ comb_size_to_next_boundary(A) = STROBE_W * c - d
            /\ A % Page = Page - STROBE_W * c + d
            /\ STROBE_W * c <= Page
      BY ByteIs
    <3>2. k + 0 = k /\ A - d = STROBE_W * k
      BY <3>1, Widths
    <3>3. QED BY <3>1, <3>2 DEF Lanes
  <2>3. StandsAt(0)'
    BY <1>2, <1>4, <2>1, <2>2 DEF StandsAt
  <2>4. WriteTypeOK'
    BY <1>2, <1>5, <2>1, <2>2 DEF WriteInv, WriteTypeOK
  <2>5. covered' = reg_address' - request'[1]
    BY <1>2, <1>4, <1>5, <2>1
  <2>6. QED BY <1>2, <1>5, <2>1, <2>3, <2>4, <2>5 DEF WriteInv
<1>8. QED BY <1>6, <1>7

\* The cycle before a burst's address.
LEMMA StartKeeps ==
  ASSUME WriteInv, reg_state = 1,
         NEW hasData \in BOOLEAN, NEW awready \in BOOLEAN, NEW wready \in BOOLEAN,
         WriteEdge(hasData, awready, wready)
  PROVE  WriteInv'
<1>1. request # None /\ ~Beat(hasData, wready)
  BY DEF WriteInv, Beat, axi_wvalid_o, state_transfer_running
<1>2. UNCHANGED <<request, taken, covered, stored_word>>
  BY <1>1, NoBeat
<1>3. /\ reg_state' = 2
      /\ UNCHANGED <<reg_counter, axi_wstrb_o, reg_stored_offset, reg_address, reg_length>>
  BY DEF WriteEdge, WriteClock, WriteIdle, WriteStart, WriteAddress, WriteData
<1>4. WriteTypeOK'
  BY <1>2, <1>3 DEF WriteInv, WriteTypeOK
<1>5. StandsAt(taken)' /\ covered' = reg_address' - request'[1]
  BY <1>2, <1>3 DEF WriteInv, StandsAt
<1>6. QED BY <1>1, <1>2, <1>3, <1>4, <1>5 DEF WriteInv

\* The memory takes the address of a burst, whose first beat then has its strobes.
LEMMA AddressKeeps ==
  ASSUME WritesFit, WriteInv, reg_state = 2,
         NEW hasData \in BOOLEAN, NEW awready \in BOOLEAN, NEW wready \in BOOLEAN,
         WriteEdge(hasData, awready, wready)
  PROVE  WriteInv'
<1>1. request # None /\ ~Beat(hasData, wready)
  BY DEF WriteInv, Beat, axi_wvalid_o, state_transfer_running
<1>2. UNCHANGED <<request, taken, covered, stored_word>>
  BY <1>1, NoBeat
<1>3. WriteAddress(awready) /\ UNCHANGED <<reg_stored_offset, reg_address, reg_length>>
  BY DEF WriteEdge, WriteClock, WriteIdle, WriteStart, WriteAddress, WriteData
<1>4. StandsAt(taken)'
  BY <1>2, <1>3 DEF WriteInv, StandsAt
<1>5. CASE ~awready
  <2>1. UNCHANGED <<reg_state, axi_wstrb_o, reg_counter>>
    BY <1>3, <1>5 DEF WriteAddress
  <2>2. WriteTypeOK'
    BY <1>2, <1>3, <2>1 DEF WriteInv, WriteTypeOK
  <2>3. QED BY <1>1, <1>2, <1>3, <1>4, <2>1, <2>2 DEF WriteInv
<1>6. CASE awready
  <2>1. /\ reg_state' = 3
        /\ axi_wstrb_o' = out_initial_strb(reg_address, reg_length)
        /\ reg_counter' = 0
    BY <1>3, <1>6 DEF WriteAddress
  <2>2. /\ reg_address \in Nat
        /\ reg_length \in Nat \ {0}
        /\ WriteFits(<<reg_address, reg_length>>)
        /\ const_max_transfer_len <= MaxBeats * STROBE_W
    BY DEF StandsAt, WriteInv, WriteTypeOK, WritesFit
  <2>3. PICK n \in 1 .. reg_length : CutAt(reg_address, reg_length, n)
    BY <2>2, CutIs
  <2>4. PICK e \in 1 .. MaxBeats :
          /\ out_axi_axlen(reg_address, reg_length) = e - 1
          /\ e = Ceil(misalign_amount(reg_address) + n)
          /\ n < reg_length => misalign_amount(reg_address) + n = STROBE_W * e
    BY <2>2, <2>3, BeatsAre
  <2>5. out_initial_strb(reg_address, reg_length) =
          BeatLanes(reg_address, out_transfer_offset(reg_address, reg_length), 0)
    BY <2>2, <2>3, FirstStrobe DEF CutAt
  <2>6. covered = reg_address - request[1] + From(reg_address, 0) - misalign_amount(reg_address)
    <3>1. request[1] \in Nat
      BY <1>1, RequestIs
    <3>2. misalign_amount(reg_address) \in Int
      BY <2>2, Widths DEF misalign_amount
    <3>3. From(reg_address, 0) = misalign_amount(reg_address)
      BY DEF From
    <3>4. covered = reg_address - request[1]
      BY DEF WriteInv
    <3>5. QED BY <2>2, <3>1, <3>2, <3>3, <3>4
  <2>7. InBurst'
    <3>1. (reg_counter <= axi_awlen_o)'
      BY <1>3, <2>1, <2>4, Widths DEF axi_awlen_o
    <3>2. (axi_wstrb_o =
            BeatLanes(reg_address, out_transfer_offset(reg_address, reg_length), reg_counter))'
      BY <1>3, <2>1, <2>5
    <3>3. (covered = reg_address - request[1] + From(reg_address, reg_counter)
                       - misalign_amount(reg_address))'
      BY <1>2, <1>3, <2>1, <2>6
    <3>4. QED BY <3>1, <3>2, <3>3 DEF InBurst
  <2>8. WriteTypeOK'
    <3>1. 0 \in 0 .. MaxBeats - 1 /\ out_initial_strb(reg_address, reg_length) \subseteq Lanes
      BY Widths DEF out_initial_strb
    <3>2. QED BY <1>2, <1>3, <2>1, <3>1 DEF WriteInv, WriteTypeOK
  <2>9. taken' - reg_counter' = taken'
    BY <1>2, <2>1 DEF WriteInv, WriteTypeOK
  <2>10. StandsAt(taken - reg_counter)'
    BY <1>4, <2>9 DEF StandsAt
  <2>11. QED BY <1>1, <1>2, <2>1, <2>7, <2>8, <2>10 DEF WriteInv
<1>7. QED BY <1>5, <1>6

\* A beat goes out and its burst goes on.
LEMMA BeatKeeps ==
  ASSUME WritesFit, WriteInv, reg_state = 3,
         NEW hasData \in BOOLEAN, NEW awready \in BOOLEAN, NEW wready \in BOOLEAN,
         WriteEdge(hasData, awready, wready), Beat(hasData, wready), ~axi_wlast_o
  PROVE  WriteInv'
<1>1. /\ request # None
      /\ StandsAt(taken - reg_counter)
      /\ InBurst
      /\ WriteTypeOK
  BY DEF WriteInv
<1>2. PICK n \in 1 .. reg_length, e \in 1 .. MaxBeats, d \in 0 .. STROBE_W - 1, x \in Nat :
        BeatIs(n, e, d, x)
  BY BeatFacts
<1>3. PICK k \in Nat : k = reg_counter /\ k < e - 1
  <2>1. reg_counter \in Nat /\ reg_counter <= axi_awlen_o /\ reg_counter # axi_awlen_o
    BY <1>1, Widths DEF InBurst, WriteTypeOK, axi_wlast_o
  <2>2. QED BY <1>2, <2>1, Widths DEF BeatIs
<1>4. /\ UNCHANGED <<reg_state, reg_stored_offset, reg_address, reg_length>>
      /\ reg_counter' = (k + 1) % MaxBeats
      /\ axi_wstrb_o' = IF k + 1 >= axi_awlen_o
                          THEN out_final_strb(reg_address, reg_length) ELSE Lanes
  <2>1. WriteData(hasData, wready)
    BY DEF WriteEdge, WriteClock, WriteIdle, WriteStart, WriteAddress
  <2>2. QED BY <1>3, <2>1 DEF WriteData
<1>5. reg_counter' = k + 1
  BY <1>3, <1>4, Widths
<1>6. request' = request /\ taken' = taken + 1 /\ covered' = covered + x /\ stored_word' = taken
  <2>1. m_wvalid_i(hasData) /\ m_wready_o(wready) /\ ~m_wlast_o(hasData, wready)
    BY DEF Beat, axi_wvalid_o, m_wready_o, m_wlast_o
  <2>2. x = Cardinality(axi_wstrb_o)
    BY <1>2 DEF BeatIs
  <2>3. QED BY <1>1, <2>1, <2>2, Zenon DEF WriteEdge, SourceClock, SplitClock
<1>7. PICK t \in Nat : t = taken /\ t - k \in Nat
  BY <1>1, <1>3 DEF StandsAt, WriteTypeOK
<1>8. /\ reg_address \in Nat
      /\ reg_length \in Nat \ {0}
      /\ const_max_transfer_len <= MaxBeats * STROBE_W
      /\ CutAt(reg_address, reg_length, n)
      /\ out_axi_axlen(reg_address, reg_length) = e - 1
  BY <1>1, <1>2 DEF StandsAt, WriteTypeOK, WritesFit, BeatIs, axi_awlen_o
<1>9. axi_wstrb_o' = BeatLanes(reg_address, n, k + 1)
  <2>1. CASE k + 1 = e - 1
    <3>1. out_axi_axlen(reg_address, reg_length) > 0 /\ k + 1 >= axi_awlen_o
      BY <1>3, <1>8, <2>1, Widths DEF axi_awlen_o
    <3>2. out_final_strb(reg_address, reg_length) = BeatLanes(reg_address, n, k + 1)
      BY <1>8, <2>1, <3>1, LastStrobe
    <3>3. QED BY <1>4, <3>1, <3>2
  <2>2. CASE k + 1 # e - 1
    <3>1. /\ k + 1 \in Nat \ {0}
          /\ k + 1 < out_axi_axlen(reg_address, reg_length)
          /\ ~(k + 1 >= axi_awlen_o)
      BY <1>3, <1>8, <2>2, Widths DEF axi_awlen_o
    <3>2. Lanes = BeatLanes(reg_address, n, k + 1)
      BY <1>8, <3>1, MiddleStrobe
    <3>3. QED BY <1>4, <3>1, <3>2
  <2>3. QED BY <2>1, <2>2
<1>10. covered + x = reg_address - request[1] + From(reg_address, k + 1) - d
  <2>1. Min2(STROBE_W * k + STROBE_W, d + n) = STROBE_W * (k + 1)
    <3>1. STROBE_W * (k + 1) <= STROBE_W * (e - 1)
      BY <1>3, Widths
    <3>2. STROBE_W * (e - 1) < d + n
      BY <1>2 DEF BeatIs
    <3>3. STROBE_W * (k + 1) = STROBE_W * k + STROBE_W
      BY <1>3, Widths
    <3>4. STROBE_W * (k + 1) < d + n
      BY <1>3, <3>1, <3>2, Widths
    <3>5. QED BY <3>3, <3>4 DEF Min2
  <2>2. From(reg_address, k + 1) = STROBE_W * (k + 1)
    BY <1>3 DEF From
  <2>3. QED BY <1>2, <1>3, <2>1, <2>2 DEF BeatIs
<1>11. InBurst'
  <2>1. (reg_counter <= axi_awlen_o)'
    BY <1>3, <1>4, <1>5, <1>8, Widths DEF axi_awlen_o
  <2>2. (axi_wstrb_o =
          BeatLanes(reg_address, out_transfer_offset(reg_address, reg_length), reg_counter))'
    BY <1>4, <1>5, <1>8, <1>9 DEF CutAt
  <2>3. (covered = reg_address - request[1] + From(reg_address, reg_counter)
                     - misalign_amount(reg_address))'
    BY <1>2, <1>4, <1>5, <1>6, <1>10 DEF BeatIs
  <2>4. QED BY <2>1, <2>2, <2>3 DEF InBurst
<1>12. StandsAt(taken - reg_counter)'
  <2>1. taken' - reg_counter' = taken - reg_counter
    BY <1>3, <1>5, <1>6, <1>7
  <2>2. QED BY <1>1, <1>4, <1>6, <2>1 DEF StandsAt
<1>13. WriteTypeOK'
  <2>1. reg_counter' \in 0 .. MaxBeats - 1
    BY <1>3, <1>5, Widths
  <2>2. axi_wstrb_o' \subseteq Lanes
    BY <1>9 DEF BeatLanes
  <2>3. taken' \in Nat /\ covered' \in Nat /\ stored_word' \in Nat
    BY <1>1, <1>6, <1>7 DEF WriteTypeOK
  <2>4. QED BY <1>1, <1>4, <1>6, <2>1, <2>2, <2>3 DEF WriteTypeOK
<1>14. taken' > 0 => stored_word' = taken' - 1
  BY <1>6, <1>7
<1>15. QED BY <1>1, <1>4, <1>6, <1>11, <1>12, <1>13, <1>14 DEF WriteInv

\* The last beat of the last burst.
LEMMA EndKeeps ==
  ASSUME WritesFit, WriteInv, reg_state = 3,
         NEW hasData \in BOOLEAN, NEW awready \in BOOLEAN, NEW wready \in BOOLEAN,
         WriteEdge(hasData, awready, wready), m_wlast_o(hasData, wready)
  PROVE  /\ WriteInv'
         /\ request' = None
         /\ covered' = request[2]
         /\ taken' = Ceil(misalign_amount(request[1]) + request[2])
<1>1. /\ request # None
      /\ StandsAt(taken - reg_counter)
      /\ InBurst
      /\ WriteTypeOK
  BY DEF WriteInv
<1>2. PICK n \in 1 .. reg_length, e \in 1 .. MaxBeats, d \in 0 .. STROBE_W - 1, x \in Nat :
        BeatIs(n, e, d, x)
  BY BeatFacts
<1>3. Beat(hasData, wready) /\ axi_wlast_o /\ out_last_transfer(reg_address, reg_length)
  BY DEF m_wlast_o
<1>4. reg_counter = e - 1 /\ n = reg_length
  BY <1>2, <1>3 DEF BeatIs, axi_wlast_o, out_last_transfer, CutAt
<1>5. /\ reg_state' = 0
      /\ UNCHANGED <<reg_stored_offset, reg_address, reg_length>>
      /\ reg_counter' = (reg_counter + 1) % MaxBeats
      /\ axi_wstrb_o' = out_final_strb(reg_address, reg_length)
  <2>1. WriteData(hasData, wready)
    BY DEF WriteEdge, WriteClock, WriteIdle, WriteStart, WriteAddress
  <2>2. reg_counter + 1 >= axi_awlen_o
    BY <1>2, <1>4, Widths DEF BeatIs
  <2>3. QED BY <1>3, <2>1, <2>2 DEF WriteData
<1>6. request' = None /\ taken' = taken + 1 /\ covered' = covered + x /\ stored_word' = taken
  <2>1. m_wvalid_i(hasData) /\ m_wready_o(wready)
    BY <1>3 DEF Beat, axi_wvalid_o, m_wready_o
  <2>2. x = Cardinality(axi_wstrb_o)
    BY <1>2 DEF BeatIs
  <2>3. QED BY <1>1, <1>3, <2>1, <2>2, Zenon DEF WriteEdge, SourceClock, SplitClock
<1>7. WriteTypeOK'
  <2>1. reg_counter' \in 0 .. MaxBeats - 1
    BY <1>4, <1>5, Widths
  <2>2. axi_wstrb_o' \subseteq Lanes
    BY <1>5 DEF out_final_strb
  <2>3. taken' \in Nat /\ covered' \in Nat /\ stored_word' \in Nat
    BY <1>1, <1>6 DEF WriteTypeOK
  <2>4. QED BY <1>1, <1>5, <1>6, <2>1, <2>2, <2>3 DEF WriteTypeOK
<1>8. WriteInv'
  BY <1>5, <1>6, <1>7 DEF WriteInv
<1>9. PICK A \in Nat, L \in Nat \ {0}, a \in Nat :
        /\ A = request[1] /\ L = request[2] /\ a = reg_address
        /\ a + n = A + L
  BY <1>1, <1>4, RequestIs DEF StandsAt, WriteTypeOK
<1>10. covered' = request[2]
  <2>1. Min2(STROBE_W * (e - 1) + STROBE_W, d + n) = d + n
    <3>1. STROBE_W * (e - 1) + STROBE_W = STROBE_W * e
      BY Widths
    <3>2. d + n <= STROBE_W * e
      BY <1>2 DEF BeatIs
    <3>3. CASE STROBE_W * e < d + n
      BY <3>2, <3>3, Widths
    <3>4. CASE ~(STROBE_W * e < d + n)
      BY <3>1, <3>4 DEF Min2
    <3>5. QED BY <3>3, <3>4
  <2>2. covered + x = a - A + (d + n) - d
    BY <1>2, <1>4, <1>9, <2>1 DEF BeatIs
  <2>3. QED BY <1>6, <1>9, <2>2, Widths
<1>11. taken' = Ceil(misalign_amount(request[1]) + request[2])
  <2>1. PICK g \in Nat : g = taken - (e - 1) /\ taken = g + (e - 1)
    BY <1>1, <1>4 DEF StandsAt, WriteTypeOK
  <2>2. PICK k \in Nat, o \in 0 .. STROBE_W - 1, c \in Nat \ {0} :
          /\ A = STROBE_W * k + o
          /\ A \div STROBE_W = k
          /\ misalign_amount(A) = o
          /\ comb_size_to_next_boundary(A) = STROBE_W * c - o
          /\ A % Page = Page - STROBE_W * c + o
          /\ STROBE_W * c <= Page
    BY ByteIs
  <2>3. a - d = STROBE_W * (k + g)
    BY <1>1, <1>2, <1>4, <1>9, <2>1, <2>2 DEF StandsAt, BeatIs
  <2>4. STROBE_W * (e - 1) < d + n /\ d + n <= STROBE_W * e
    BY <1>2 DEF BeatIs
  <2>5. o + L <= STROBE_W * (g + e) /\ STROBE_W * (g + e) < o + L + STROBE_W
    BY <1>9, <2>2, <2>3, <2>4, Widths
  <2>6. Ceil(o + L) = g + e
    BY <2>5, CeilUnique, Widths
  <2>7. QED BY <1>6, <1>9, <2>1, <2>2, <2>6
<1>12. QED BY <1>6, <1>8, <1>10, <1>11

\* The last beat of another burst: what is left starts at a word.
LEMMA NextBurstKeeps ==
  ASSUME WritesFit, WriteInv, reg_state = 3,
         NEW hasData \in BOOLEAN, NEW awready \in BOOLEAN, NEW wready \in BOOLEAN,
         WriteEdge(hasData, awready, wready), Beat(hasData, wready), axi_wlast_o,
         ~out_last_transfer(reg_address, reg_length)
  PROVE  WriteInv'
<1>1. /\ request # None
      /\ StandsAt(taken - reg_counter)
      /\ InBurst
      /\ WriteTypeOK
  BY DEF WriteInv
<1>2. PICK n \in 1 .. reg_length, e \in 1 .. MaxBeats, d \in 0 .. STROBE_W - 1, x \in Nat :
        BeatIs(n, e, d, x)
  BY BeatFacts
<1>3. reg_counter = e - 1 /\ n < reg_length /\ d + n = STROBE_W * e
      /\ out_transfer_offset(reg_address, reg_length) = n
  BY <1>2 DEF BeatIs, axi_wlast_o, out_last_transfer, CutAt
<1>4. /\ reg_state' = 1
      /\ reg_stored_offset' = reg_stored_offset
      /\ reg_address' = reg_address + n
      /\ reg_length' = reg_length - n
      /\ reg_counter' = (reg_counter + 1) % MaxBeats
      /\ axi_wstrb_o' = out_final_strb(reg_address, reg_length)
  <2>1. WriteData(hasData, wready)
    BY DEF WriteEdge, WriteClock, WriteIdle, WriteStart, WriteAddress
  <2>2. reg_counter + 1 >= axi_awlen_o
    BY <1>2, <1>3, Widths DEF BeatIs
  <2>3. QED BY <1>3, <2>1, <2>2 DEF WriteData
<1>5. request' = request /\ taken' = taken + 1 /\ covered' = covered + x /\ stored_word' = taken
  <2>1. m_wvalid_i(hasData) /\ m_wready_o(wready) /\ ~m_wlast_o(hasData, wready)
    BY DEF Beat, axi_wvalid_o, m_wready_o, m_wlast_o
  <2>2. x = Cardinality(axi_wstrb_o)
    BY <1>2 DEF BeatIs
  <2>3. QED BY <1>1, <2>1, <2>2, Zenon DEF WriteEdge, SourceClock, SplitClock
<1>6. /\ reg_address \in Nat
      /\ reg_length \in Nat \ {0}
      /\ const_max_transfer_len <= MaxBeats * STROBE_W
      /\ CutAt(reg_address, reg_length, n)
      /\ WriteFits(<<reg_address, reg_length>>)
  BY <1>1, <1>2 DEF StandsAt, WriteTypeOK, WritesFit, BeatIs
<1>7. misalign_amount(reg_address + n) = 0 /\ WriteFits(<<reg_address + n, reg_length - n>>)
  BY <1>3, <1>6, RestFits
<1>8. PICK A \in Nat, L \in Nat \ {0} :
        A = request[1] /\ L = request[2] /\ reg_address + reg_length = A + L
  BY <1>1, RequestIs DEF StandsAt
<1>9. PICK t \in Nat, g \in Nat : t = taken /\ g = t - (e - 1)
  BY <1>1, <1>3 DEF StandsAt, WriteTypeOK
<1>10. StandsAt(taken)'
  <2>1. (reg_address + n) - 0 = STROBE_W * (A \div STROBE_W + (t + 1))
    <3>1. PICK k \in Nat : k = A \div STROBE_W
      BY Widths
    <3>2. reg_address - d = STROBE_W * (k + g)
      BY <1>1, <1>2, <1>3, <1>8, <1>9, <3>1 DEF StandsAt, BeatIs
    <3>3. reg_address + n = STROBE_W * (k + (t + 1))
      BY <1>3, <1>6, <1>9, <3>2, Widths
    <3>4. QED BY <1>6, <3>1, <3>3
  <2>2. reg_length - n # 0 /\ (reg_address + n) + (reg_length - n) = A + L
    BY <1>3, <1>6, <1>8
  <2>3. t + 1 \in Nat /\ t + 1 # 0
    BY <1>9
  <2>4. QED BY <1>1, <1>4, <1>5, <1>7, <1>8, <1>9, <2>1, <2>2, <2>3 DEF StandsAt
<1>11. covered' = reg_address' - request'[1]
  <2>1. Min2(STROBE_W * (e - 1) + STROBE_W, d + n) = d + n
    <3>1. STROBE_W * (e - 1) + STROBE_W = STROBE_W * e
      BY Widths
    <3>2. ~(STROBE_W * e < d + n)
      BY <1>3, Widths
    <3>3. QED BY <3>1, <3>2 DEF Min2
  <2>2. covered + x = reg_address - A + (d + n) - d
    BY <1>2, <1>3, <1>8, <2>1 DEF BeatIs
  <2>3. QED BY <1>4, <1>5, <1>6, <1>8, <2>2, Widths
<1>12. WriteTypeOK'
  <2>1. reg_counter' \in 0 .. MaxBeats - 1
    BY <1>3, <1>4, Widths
  <2>2. axi_wstrb_o' \subseteq Lanes
    BY <1>4 DEF out_final_strb
  <2>3. taken' \in Nat /\ covered' \in Nat /\ stored_word' \in Nat
    BY <1>1, <1>5 DEF WriteTypeOK
  <2>4. reg_address' \in Nat /\ reg_length' \in Nat
    BY <1>3, <1>4, <1>6
  <2>5. QED BY <1>1, <1>4, <1>5, <2>1, <2>2, <2>3, <2>4 DEF WriteTypeOK
<1>13. taken' > 0 => stored_word' = taken' - 1
  BY <1>5, <1>9
<1>14. QED BY <1>1, <1>4, <1>5, <1>10, <1>11, <1>12, <1>13 DEF WriteInv

\* Beats wait for a word and for the memory.
LEMMA WaitKeeps ==
  ASSUME WriteInv, reg_state = 3,
         NEW hasData \in BOOLEAN, NEW awready \in BOOLEAN, NEW wready \in BOOLEAN,
         WriteEdge(hasData, awready, wready), ~Beat(hasData, wready)
  PROVE  WriteInv'
<1>1. request # None
  BY DEF WriteInv
<1>2. UNCHANGED <<request, taken, covered, stored_word>>
  BY <1>1, NoBeat
<1>3. UNCHANGED <<reg_state, reg_counter, axi_wstrb_o, reg_address, reg_length, reg_stored_offset>>
  <2>1. WriteData(hasData, wready)
    BY DEF WriteEdge, WriteClock, WriteIdle, WriteStart, WriteAddress
  <2>2. QED BY <2>1 DEF WriteData
<1>4. WriteTypeOK'
  BY <1>2, <1>3 DEF WriteInv, WriteTypeOK
<1>5. StandsAt(taken - reg_counter)'
  BY <1>2, <1>3 DEF WriteInv, StandsAt
<1>6. InBurst'
  BY <1>2, <1>3 DEF WriteInv, InBurst, axi_awlen_o
<1>7. QED BY <1>1, <1>2, <1>3, <1>4, <1>5, <1>6 DEF WriteInv

LEMMA WriteInductive ==
  ASSUME WritesFit
  PROVE  WriteInv /\ [WriteNext]_writeVars => WriteInv'
<1> SUFFICES ASSUME WriteInv, [WriteNext]_writeVars PROVE WriteInv'
  OBVIOUS
<1>1. ASSUME WriteNext PROVE WriteInv'
  <2>1. PICK hasData \in BOOLEAN, awready \in BOOLEAN, wready \in BOOLEAN :
          WriteEdge(hasData, awready, wready)
    BY <1>1 DEF WriteNext
  <2>2. CASE request = None
    BY <2>1, <2>2, RestKeeps
  <2>3. CASE request # None /\ reg_state = 0
    BY <2>1, <2>3, IdleKeeps
  <2>4. CASE reg_state = 1
    BY <2>1, <2>4, StartKeeps
  <2>5. CASE reg_state = 2
    BY <2>1, <2>5, AddressKeeps
  <2>6. CASE reg_state = 3
    <3>1. CASE ~Beat(hasData, wready)
      BY <2>1, <2>6, <3>1, WaitKeeps
    <3>2. CASE Beat(hasData, wready) /\ ~axi_wlast_o
      BY <2>1, <2>6, <3>2, BeatKeeps
    <3>3. CASE Beat(hasData, wready) /\ axi_wlast_o /\ ~out_last_transfer(reg_address, reg_length)
      BY <2>1, <2>6, <3>3, NextBurstKeeps
    <3>4. CASE m_wlast_o(hasData, wready)
      BY <2>1, <2>6, <3>4, EndKeeps
    <3>5. QED BY <3>1, <3>2, <3>3, <3>4 DEF m_wlast_o
  <2>7. reg_state \in 0 .. 3
    BY DEF WriteInv, WriteTypeOK
  <2>8. QED BY <2>2, <2>3, <2>4, <2>5, <2>6, <2>7
<1>2. CASE UNCHANGED writeVars
  BY <1>2 DEF writeVars, writeRegs, WriteInv, WriteTypeOK, StandsAt, InBurst, axi_awlen_o
<1>3. QED BY <1>1, <1>2

\* Every beat writes the next bytes of the stream to the next bytes of the request and
\* nothing else (SimpleAXIToAXIWrite2.v:127-153), for any set of writes the module cuts
\* right and whatever the pauses of source and memory.
THEOREM BytesLandInPlace ==
  ASSUME WritesFit
  PROVE  WriteSpec => []BytesInPlace
<1>1. ASSUME WriteInv PROVE BytesInPlace
  <2>1. SUFFICES ASSUME reg_state = 3, NEW lane \in axi_wstrb_o
                 PROVE  /\ LaneByte(lane) = LaneAddress(lane) - request[1]
                        /\ LaneByte(lane) \in covered .. covered + Cardinality(axi_wstrb_o) - 1
    BY DEF BytesInPlace, state_transfer_running
  <2>2. /\ request # None
        /\ StandsAt(taken - reg_counter)
        /\ InBurst
        /\ WriteTypeOK
    BY <1>1, <2>1 DEF WriteInv
  <2>3. PICK n \in 1 .. reg_length, e \in 1 .. MaxBeats, d \in 0 .. STROBE_W - 1, x \in Nat :
          BeatIs(n, e, d, x)
    BY <1>1, <2>1, BeatFacts
  <2>4. PICK A \in Nat, a \in Nat, k \in Nat, t \in Nat, g \in Nat, i \in 0 .. STROBE_W - 1 :
          /\ A = request[1] /\ a = reg_address /\ k = reg_counter /\ t = taken /\ i = lane
          /\ t = g + k /\ g = taken - reg_counter
    <3>1. lane \in 0 .. STROBE_W - 1 /\ reg_counter \in Nat
      BY <2>1, <2>2 DEF WriteTypeOK, Lanes
    <3>2. QED BY <1>1, <2>2, <3>1, RequestIs DEF StandsAt, WriteTypeOK
  <2>5. PICK w \in Nat, o \in 0 .. STROBE_W - 1, c \in Nat \ {0} :
          /\ A = STROBE_W * w + o
          /\ A \div STROBE_W = w
          /\ misalign_amount(A) = o
          /\ comb_size_to_next_boundary(A) = STROBE_W * c - o
          /\ A % Page = Page - STROBE_W * c + o
          /\ STROBE_W * c <= Page
    BY ByteIs
  <2>6. /\ reg_stored_offset = o
        /\ a - d = STROBE_W * (w + g)
        /\ IF g = 0 THEN a = A /\ d = o ELSE d = 0
    BY <2>2, <2>3, <2>4, <2>5 DEF StandsAt, BeatIs
  <2>7. STROBE_W * k + i >= From(a, k) /\ STROBE_W * k + i < d + n
    <3>1. axi_wstrb_o = BeatLanes(a, n, k)
      BY <2>2, <2>3, <2>4 DEF InBurst, BeatIs, CutAt
    <3>2. misalign_amount(a) = d
      BY <2>3, <2>4 DEF BeatIs
    <3>3. QED BY <2>1, <2>4, <3>1, <3>2 DEF BeatLanes
  <2>8. LaneByte(lane) = t * STROBE_W + i - o
    <3>1. CASE i >= o
      BY <2>4, <2>6, <3>1, Widths DEF LaneByte
    <3>2. CASE ~(i >= o)
      <4>1. t > 0
        <5>1. CASE g = 0 /\ k = 0
          <6>1. From(a, k) = o
            BY <2>3, <2>4, <2>6, <5>1 DEF From, BeatIs
          <6>2. QED BY <2>4, <2>7, <3>2, <5>1, <6>1, Widths
        <5>2. QED BY <2>4, <5>1
      <4>2. stored_word = t - 1 /\ stored_word # None
        BY <1>1, <2>1, <2>4, <4>1, BusAssumption DEF WriteInv
      <4>3. LaneByte(lane) = (t - 1) * STROBE_W + (STROBE_W - o + i)
        BY <2>4, <2>6, <3>2, <4>2 DEF LaneByte
      <4>4. (t - 1) * STROBE_W + (STROBE_W - o + i) = t * STROBE_W + i - o
        <5>1. CASE STROBE_W = 4 BY <2>4, <2>5, <5>1
        <5>2. CASE STROBE_W = 8 BY <2>4, <2>5, <5>2
        <5>3. CASE STROBE_W = 16 BY <2>4, <2>5, <5>3
        <5>4. CASE STROBE_W = 32 BY <2>4, <2>5, <5>4
        <5>5. CASE STROBE_W = 64 BY <2>4, <2>5, <5>5
        <5>6. QED BY <5>1, <5>2, <5>3, <5>4, <5>5, Widths
      <4>5. QED BY <4>3, <4>4
    <3>3. QED BY <3>1, <3>2
  <2>9. LaneAddress(lane) = a - d + k * STROBE_W + i
    BY <2>3, <2>4 DEF LaneAddress, BeatIs
  <2>10. LaneByte(lane) = LaneAddress(lane) - A
    <3>1. t * STROBE_W + i - o = (a - d + k * STROBE_W + i) - A
      <4>1. CASE STROBE_W = 4 BY <2>3, <2>4, <2>5, <2>6, <4>1
      <4>2. CASE STROBE_W = 8 BY <2>3, <2>4, <2>5, <2>6, <4>2
      <4>3. CASE STROBE_W = 16 BY <2>3, <2>4, <2>5, <2>6, <4>3
      <4>4. CASE STROBE_W = 32 BY <2>3, <2>4, <2>5, <2>6, <4>4
      <4>5. CASE STROBE_W = 64 BY <2>3, <2>4, <2>5, <2>6, <4>5
      <4>6. QED BY <4>1, <4>2, <4>3, <4>4, <4>5, Widths
    <3>2. QED BY <2>8, <2>9, <3>1, Zenon
  <2>11. covered = a - A + From(a, k) - d
    BY <2>2, <2>3, <2>4 DEF InBurst, BeatIs
  <2>12. covered + x = a - A + Min2(STROBE_W * k + STROBE_W, d + n) - d
    BY <2>3, <2>4 DEF BeatIs
  <2>13. PICK y \in Nat : y = STROBE_W * k + i
    BY Widths
  <2>14. PICK f \in Nat, m \in Nat :
           f = From(a, k) /\ m = Min2(STROBE_W * k + STROBE_W, d + n) /\ f <= y /\ y < m
    <3>1. From(a, k) \in Nat
      BY <2>3, <2>4, Widths DEF From, BeatIs
    <3>2. Min2(STROBE_W * k + STROBE_W, d + n) \in Nat /\ y < Min2(STROBE_W * k + STROBE_W, d + n)
      BY <2>7, <2>13, Widths DEF Min2
    <3>3. QED BY <2>7, <2>13, <3>1, <3>2
  <2>15. LaneByte(lane) = a - A + y - d
    BY <2>9, <2>10, <2>13, Widths
  <2>16. LaneByte(lane) \in covered .. covered + x - 1
    <3>1. covered \in Nat
      BY <2>2 DEF WriteTypeOK
    <3>2. QED BY <2>11, <2>12, <2>14, <2>15, <3>1, Widths
  <2>17. QED BY <2>3, <2>4, <2>10, <2>16 DEF BeatIs
<1>2. QED BY <1>1, WriteBegins, WriteInductive, PTL DEF WriteSpec

\* A write is over with its last byte written and takes as many words as its bytes fill
\* (VWrite.v:134-148), for writes that touch no more bus words than that.
THEOREM WritesEndWithLastByte ==
  ASSUME WritesFit,
         \A t \in Writes : Ceil(misalign_amount(t[1]) + t[2]) = Ceil(t[2])
  PROVE  WriteSpec => EndsWithLastByte
<1>1. ASSUME WriteInv, [WriteNext]_writeVars, request # None, request' = None
      PROVE  covered' = request[2] /\ taken' = (request[2] + STROBE_W - 1) \div STROBE_W
  <2>1. WriteNext
    BY <1>1 DEF writeVars
  <2>2. PICK hasData \in BOOLEAN, awready \in BOOLEAN, wready \in BOOLEAN :
          WriteEdge(hasData, awready, wready)
    BY <2>1 DEF WriteNext
  <2>3. m_wlast_o(hasData, wready)
    BY <1>1, <2>2 DEF WriteEdge, SourceClock
  <2>4. reg_state = 3
    BY <2>3 DEF m_wlast_o, Beat, axi_wvalid_o, state_transfer_running
  <2>5. covered' = request[2] /\ taken' = Ceil(misalign_amount(request[1]) + request[2])
    BY <1>1, <2>2, <2>3, <2>4, EndKeeps
  <2>6. Ceil(misalign_amount(request[1]) + request[2]) = Ceil(request[2])
    BY <1>1, RequestIs
  <2>7. QED BY <2>5, <2>6 DEF Ceil
<1>2. QED BY <1>1, WriteBegins, WriteInductive, PTL DEF WriteSpec, EndsWithLastByte

-----------------------------------------------------------------------------
(* The bursts alone, one step each.  While a read or a write has bytes left, *)
(* its registers are those of a transfer the controllers cut right, so its   *)
(* next burst is one AxiTransfer allows.                                     *)

ReadCutInv ==
  /\ address_i \in Nat /\ length_i \in Nat
  /\ active => Asked /\ \E g \in Nat : Covered(g)

WriteCutInv ==
  /\ w_active => /\ reg_address \in Nat /\ reg_length \in Nat \ {0}
                 /\ WriteFits(<<reg_address, reg_length>>)
  /\ ~w_active => reg_length = 0

\* The next burst of a read starts at byte s of a page, and covers n of the r bytes left.
LEMMA ReadCutIs ==
  ASSUME ReadCutInv, active
  PROVE  \E n, r \in Nat \ {0} :
           /\ NextByte \in Nat /\ BytesLeft = r /\ n <= r
           /\ transfer_byte_size = n
           /\ last_transfer_next_o <=> n = r
           /\ true_axi_axaddr_o = NextByte - (NextByte % STROBE_W)
           /\ true_axi_axlen_o + 1 = ((NextByte % STROBE_W) + n + STROBE_W - 1) \div STROBE_W
           /\ true_axi_axlen_o + 1 <= MaxBeats
           /\ (NextByte % Page) + n <= Page
           /\ n < r => /\ NextByte % STROBE_W = 0
                       /\ n = STROBE_W * (true_axi_axlen_o + 1)
<1>1. PICK g \in Nat : Asked /\ Covered(g)
  BY DEF ReadCutInv
<1>2. PICK o \in 0 .. STROBE_W - 1, w \in Nat, r \in Nat \ {0} :
        /\ o = offset /\ w = FirstWord + g /\ r = stored_len
        /\ address_i = STROBE_W * FirstWord + o
        /\ g > 0 => o = 0
  BY <1>1, AskedFacts DEF Covered
<1>3. PICK y \in Nat : y = STROBE_W * w
  BY Widths
<1>4. true_axi_axaddr_o = y
  BY <1>1, <1>2, <1>3 DEF Covered
<1>5. NextByte = y + o
  <2>1. CASE g = 0
    <3>1. FirstWord \in Nat /\ w = FirstWord /\ first_i_transfer
      BY <1>1, <1>2, <2>1, AskedFacts DEF Covered
    <3>2. QED BY <1>2, <1>3, <3>1 DEF NextByte
  <2>2. CASE g > 0
    <3>1. ~first_i_transfer /\ o = 0
      BY <1>1, <1>2, <2>2 DEF Covered
    <3>2. QED BY <1>3, <1>4, <3>1 DEF NextByte
  <2>3. QED BY <2>1, <2>2
<1>6. BytesLeft = r
  <2>1. PICK f \in Nat, l \in Nat : f = FirstWord /\ l = length_i
    BY <1>1, AskedFacts DEF Asked
  <2>2. r = l - STROBE_W * g /\ address_i = STROBE_W * f + o /\ y = STROBE_W * (f + g)
    BY <1>1, <1>2, <1>3, <2>1 DEF Covered
  <2>3. BytesLeft = address_i + l - (y + o)
    BY <1>5, <2>1 DEF BytesLeft
  <2>4. STROBE_W * (f + g) = STROBE_W * f + STROBE_W * g
    BY <2>1, Widths
  <2>5. STROBE_W * f \in Nat /\ STROBE_W * g \in Nat
    BY <2>1, Widths
  <2>6. QED BY <1>2, <2>1, <2>2, <2>3, <2>4, <2>5, Widths
<1>7. NextByte % STROBE_W = o
  BY <1>2, <1>3, <1>5, Remainder, Widths
<1>8. (NextByte % Page) = (true_axi_axaddr_o % Page) + o
  <2>1. PICK c \in Nat \ {0} :
          /\ Page - ((STROBE_W * w) % Page) = STROBE_W * c
          /\ (STROBE_W * w + o) % Page = Page - STROBE_W * c + o
    BY PagePlace
  <2>2. PICK z \in Nat, x \in Nat : z = y % Page /\ x = STROBE_W * c
    BY <1>3, Widths, BusAssumption
  <2>3. QED BY <1>3, <1>4, <1>5, <2>1, <2>2, BusAssumption
<1>9. PICK e \in 1 .. MaxBeats : e = true_axi_axlen_o + 1
  BY <1>1, BurstIs, Widths
<1>10. CASE last_transfer_next_o
  <2>1. transfer_byte_size = r /\ g + e = BusWords
    BY <1>1, <1>2, <1>9, <1>10, BurstIs
  <2>2. e = Ceil(o + r)
    <3>1. PICK l \in Nat : l = length_i /\ r = l - STROBE_W * g
      BY <1>1, <1>2 DEF Asked, Covered
    <3>2. g + e = Ceil(o + l)
      BY <1>2, <2>1, <3>1 DEF BusWords
    <3>3. g + e \in Nat /\ o + l \in Nat
      BY <3>1, Widths
    <3>4. o + l <= STROBE_W * (g + e) /\ STROBE_W * (g + e) < o + l + STROBE_W
      BY <3>2, <3>3, CeilIs
    <3>5. o + r <= STROBE_W * e /\ STROBE_W * e < o + r + STROBE_W
      BY <3>1, <3>4, Widths
    <3>6. QED BY <3>5, CeilUnique, Widths
  <2>3. (true_axi_axaddr_o % Page) + o + r <= Page
    BY <1>1, <1>2, <2>1, BurstIs
  <2>4. true_axi_axlen_o + 1 = ((NextByte % STROBE_W) + r + STROBE_W - 1) \div STROBE_W
    BY <1>7, <1>9, <2>2 DEF Ceil
  <2>5. true_axi_axaddr_o = NextByte - (NextByte % STROBE_W) /\ NextByte \in Nat
    BY <1>3, <1>4, <1>5, <1>7, Widths
  <2>6. (NextByte % Page) + r <= Page
    BY <1>8, <2>3
  <2>7. PICK n \in Nat \ {0} : n = r /\ n <= r /\ ~(n < r)
    BY <1>2
  <2>8. true_axi_axlen_o + 1 <= MaxBeats
    BY <1>9, Widths
  <2>9. QED BY <1>6, <1>10, <2>1, <2>4, <2>5, <2>6, <2>7, <2>8
<1>11. CASE ~last_transfer_next_o
  <2>1. PICK n \in Nat \ {0} : n = transfer_byte_size /\ n = STROBE_W * e
    BY <1>1, <1>9, <1>11, BurstIs, Widths
  <2>2. o = 0 /\ n < r
    BY <1>1, <1>2, <1>11, <2>1, BurstIs
  <2>3. e = Ceil(o + n)
    BY <2>1, <2>2, CeilUnique, Widths
  <2>4. (true_axi_axaddr_o % Page) + o + n <= Page
    BY <1>1, <1>2, <2>1, BurstIs
  <2>5. QED BY <1>2, <1>3, <1>4, <1>5, <1>6, <1>7, <1>8, <1>9, <1>11, <2>1, <2>2, <2>3, <2>4, Widths DEF Ceil
<1>12. QED BY <1>10, <1>11

LEMMA ReadCutStarts ==
  ASSUME ReadsFit, ReadCutInv, ~active, StartRead
  PROVE  ReadCutInv' /\ Read!Start
<1>1. PICK t \in Reads :
        address_i' = t[1] /\ length_i' = t[2] /\ TransferStart(t[1], t[2])
  BY DEF StartRead
<1>2. PICK a \in Nat, l \in Nat \ {0} : a = t[1] /\ l = t[2] /\ ReadFits(<<a, l>>)
  BY DEF ReadsFit
<1>3. Asked'
  <2>1. ReadFits(<<address_i, length_i>>)'
    BY <1>1, <1>2 DEF ReadFits
  <2>2. QED BY <1>1, <1>2, <2>1 DEF Asked
<1>4. Covered(0)'
  <2>1. stored_len' = l /\ length_i' = l /\ first_i_transfer' = TRUE
    BY <1>1, <1>2 DEF TransferStart
  <2>2. true_axi_axaddr_o' = STROBE_W * FirstWord'
    <3>1. true_axi_axaddr_o' = address_i' - offset'
      BY <1>1, <1>2 DEF TransferStart, offset
    <3>2. (Asked => address_i - offset = STROBE_W * FirstWord)'
      BY AskedFacts, PTL
    <3>3. QED BY <1>3, <3>1, <3>2
  <2>3. (Asked => FirstWord \in Nat)'
    BY AskedFacts, PTL
  <2>4. QED BY <1>2, <1>3, <2>1, <2>2, <2>3, Widths DEF Covered
<1>5. ReadCutInv'
  BY <1>1, <1>2, <1>3, <1>4 DEF ReadCutInv
<1>6. BytesLeft = 0
  <2>1. NextByte = address_i + length_i
    BY DEF NextByte
  <2>2. QED BY <2>1 DEF BytesLeft, ReadCutInv
<1>7. NextByte' = a /\ BytesLeft' = l
  <2>1. active' = TRUE /\ first_i_transfer' = TRUE
    BY <1>1 DEF StartRead, TransferStart
  <2>2. NextByte' = a
    BY <1>1, <1>2, <2>1 DEF NextByte
  <2>3. QED BY <1>1, <1>2, <2>2 DEF BytesLeft
<1>8. burst' = None
  BY DEF StartRead
<1>9. QED BY <1>2, <1>5, <1>6, <1>7, <1>8 DEF Read!Start

LEMMA ReadCutGoesOn ==
  ASSUME ReadCutInv, active, ReadBurst
  PROVE  ReadCutInv' /\ Read!Burst
<1>1. PICK n \in Nat \ {0}, r \in Nat \ {0} :
           /\ NextByte \in Nat /\ BytesLeft = r /\ n <= r
           /\ transfer_byte_size = n
           /\ last_transfer_next_o <=> n = r
           /\ true_axi_axaddr_o = NextByte - (NextByte % STROBE_W)
           /\ true_axi_axlen_o + 1 = ((NextByte % STROBE_W) + n + STROBE_W - 1) \div STROBE_W
           /\ true_axi_axlen_o + 1 <= MaxBeats
           /\ (NextByte % Page) + n <= Page
           /\ n < r => /\ NextByte % STROBE_W = 0
                       /\ n = STROBE_W * (true_axi_axlen_o + 1)
  BY ReadCutIs
<1>2. PICK g \in Nat : Asked /\ Covered(g)
  BY DEF ReadCutInv
<1>3. /\ address_i' = address_i /\ length_i' = length_i
      /\ first_i_transfer' = FALSE
      /\ active' = ~last_transfer_next_o
      /\ stored_len' = stored_len - n
      /\ true_axi_axaddr_o' = true_axi_axaddr_o + (true_axi_axlen_o + 1) * STROBE_W
      /\ burst' = [word |-> true_axi_axaddr_o, beats |-> true_axi_axlen_o + 1]
  BY <1>1 DEF ReadBurst, BurstStart
<1>4. PICK q \in Nat : q = true_axi_axlen_o
  BY <1>2, BurstIs, Widths
<1>5. NextByte' = NextByte + n /\ BytesLeft' = r - n
  <2>1. BytesLeft = address_i + length_i - NextByte /\ BytesLeft' = address_i + length_i - NextByte'
    BY <1>3 DEF BytesLeft
  <2>2. address_i \in Nat /\ length_i \in Nat
    BY <1>2 DEF Asked
  <2>3. NextByte' = NextByte + n
    <3>1. CASE last_transfer_next_o
      <4>1. ~active'
        BY <1>3, <3>1
      <4>2. NextByte' = address_i + length_i
        BY <1>3, <4>1 DEF NextByte
      <4>3. n = r
        BY <1>1, <3>1, Zenon
      <4>4. PICK x \in Nat : x = NextByte
        BY <1>1
      <4>5. address_i + length_i - x = r
        BY <1>1, <2>1, <4>4
      <4>6. QED BY <2>2, <4>2, <4>3, <4>4, <4>5
    <3>2. CASE ~last_transfer_next_o
      <4>1. active'
        BY <1>3, <3>2
      <4>2. NextByte' = true_axi_axaddr_o'
        BY <1>3, <4>1 DEF NextByte
      <4>3. true_axi_axaddr_o' = true_axi_axaddr_o + n /\ true_axi_axaddr_o = NextByte
        <5>1. ~(n = r)
          BY <1>1, <3>2, Zenon
        <5>2. n < r
          BY <1>1, <5>1
        <5>3. QED BY <1>1, <1>3, <1>4, <5>2, Widths
      <4>4. QED BY <4>2, <4>3
    <3>3. QED BY <3>1, <3>2
  <2>4. QED BY <1>1, <2>1, <2>2, <2>3
<1>6. ASSUME active' PROVE Asked' /\ Covered(g + q + 1)'
  <2>1. ~last_transfer_next_o /\ n < r
    <3>1. ~last_transfer_next_o
      BY <1>3, <1>6, Zenon
    <3>2. ~(n = r)
      BY <1>1, <3>1, Zenon
    <3>3. QED BY <1>1, <3>1, <3>2
  <2>2. Asked'
    BY <1>2, <1>3 DEF Asked, ReadFits
  <2>3. offset = 0 /\ n = STROBE_W * (q + 1) /\ n < stored_len
    BY <1>1, <1>2, <1>4, <2>1, BurstIs
  <2>4. FirstWord' = FirstWord /\ offset' = offset /\ FirstWord \in Nat
    BY <1>2, <1>3, AskedFacts DEF FirstWord, offset
  <2>5. stored_len' \in Nat \ {0} /\ stored_len' = length_i - STROBE_W * (g + q + 1)
    <3>1. PICK s \in Nat, l \in Nat : s = stored_len /\ l = length_i /\ s = l - STROBE_W * g
      BY <1>2 DEF Covered, Asked
    <3>2. s - n = l - STROBE_W * (g + q + 1)
      BY <3>1, <2>3, Widths
    <3>3. QED BY <1>1, <1>3, <2>3, <3>1, <3>2
  <2>6. true_axi_axaddr_o' = STROBE_W * (FirstWord + (g + q + 1))
    <3>1. PICK w \in Nat : w = FirstWord
      BY <2>4
    <3>2. true_axi_axaddr_o = STROBE_W * (w + g)
      BY <1>2, <3>1 DEF Covered
    <3>3. STROBE_W * (w + g) + (q + 1) * STROBE_W = STROBE_W * (w + (g + q + 1))
      BY <3>1, Widths
    <3>4. QED BY <1>3, <1>4, <3>1, <3>2, <3>3
  <2>7. QED BY <1>3, <1>4, <2>2, <2>3, <2>4, <2>5, <2>6 DEF Covered
<1>7. ReadCutInv'
  BY <1>2, <1>3, <1>4, <1>6 DEF ReadCutInv, Asked
<1>8. BytesLeft' \in 0 .. BytesLeft - 1 /\ BytesLeft - BytesLeft' = n
  BY <1>1, <1>5
<1>9. QED BY <1>1, <1>3, <1>5, <1>7, <1>8 DEF Read!Burst, Read!Aligned, Read!Beats

LEMMA WriteCutStarts ==
  ASSUME WritesFit, WriteCutInv, StartWrite
  PROVE  WriteCutInv' /\ Write!Start
<1>1. PICK t \in Writes : reg_address' = t[1] /\ reg_length' = t[2]
  BY DEF StartWrite
<1>2. ~w_active /\ w_active' = TRUE /\ w_burst' = None
  BY DEF StartWrite
<1>3. PICK a \in Nat, l \in Nat \ {0} : a = t[1] /\ l = t[2] /\ t = <<a, l>> /\ WriteFits(<<a, l>>)
  BY DEF WritesFit
<1>4. WriteCutInv'
  BY <1>1, <1>2, <1>3 DEF WriteCutInv
<1>5. QED BY <1>1, <1>2, <1>3, <1>4 DEF WriteCutInv, Write!Start

LEMMA WriteCutGoesOn ==
  ASSUME WritesFit, WriteCutInv, w_active, WriteBurst
  PROVE  WriteCutInv' /\ Write!Burst
<1>1. PICK a \in Nat, l \in Nat \ {0} :
        a = reg_address /\ l = reg_length /\ WriteFits(<<a, l>>)
  BY DEF WriteCutInv
<1>2. const_max_transfer_len <= MaxBeats * STROBE_W
  BY DEF WritesFit
<1>3. PICK n \in 1 .. l : CutAt(a, l, n)
  BY <1>1, <1>2, CutIs
<1>4. PICK e \in 1 .. MaxBeats : out_axi_axlen(a, l) = e - 1 /\ e = Ceil(misalign_amount(a) + n)
  BY <1>1, <1>2, <1>3, BeatsAre
<1>5. /\ w_burst' = [word |-> a - misalign_amount(a), beats |-> out_axi_axlen(a, l) + 1]
      /\ n = l => w_active' = FALSE
      /\ n # l => w_active' = TRUE
      /\ reg_address' = a + n
      /\ reg_length' = l - n
  BY <1>1, <1>3 DEF WriteBurst, out_last_transfer, CutAt
<1>6. w_burst' = [word |-> a - (a % STROBE_W),
                  beats |-> ((a % STROBE_W) + n + STROBE_W - 1) \div STROBE_W]
  <2>1. out_axi_axlen(a, l) + 1 = Ceil(misalign_amount(a) + n)
    BY <1>4, Widths
  <2>2. QED BY <1>5, <2>1 DEF Ceil, misalign_amount
<1>7. w_burst'.beats <= MaxBeats
  <2>1. out_axi_axlen(a, l) + 1 <= MaxBeats
    BY <1>4, Widths
  <2>2. QED BY <1>5, <2>1
<1>8. (a % Page) + n <= Page
  <2>1. PICK x \in Nat : x = a % Page
    BY BusAssumption
  <2>2. n <= Page - x
    BY <1>3, <2>1 DEF CutAt, comb_size_to_next_boundary
  <2>3. QED BY <2>1, <2>2, BusAssumption
<1>9. Write!Burst
  BY <1>1, <1>3, <1>5, <1>6, <1>7, <1>8 DEF Write!Burst, Write!Aligned, Write!Beats
<1>10. WriteCutInv'
  <2>1. CASE n = l
    BY <1>5, <2>1 DEF WriteCutInv
  <2>2. CASE n < l
    <3>1. WriteFits(<<a + n, l - n>>)
      BY <1>1, <1>2, <1>3, <2>2, RestFits
    <3>2. a + n \in Nat /\ l - n \in Nat \ {0}
      BY <1>3, <2>2
    <3>3. WriteFits(<<reg_address, reg_length>>)'
      <4>1. reg_address' = a + n /\ reg_length' = l - n
        BY <1>5
      <4>2. QED BY <3>1, <4>1 DEF WriteFits
    <3>4. w_active' = TRUE
      BY <1>5, <2>2
    <3>5. QED BY <1>5, <3>2, <3>3, <3>4 DEF WriteCutInv
  <2>3. QED BY <1>3, <2>1, <2>2
<1>11. QED BY <1>9, <1>10

\* The bursts of a read, and those of a write, cover exactly the bytes asked for, in
\* order, none reaching into the next page or longer than a burst may be
\* (AXITransferController.v:3-5, AXITransferController2.v:3-5): what the two controllers
\* compute implements AxiTransfer, for all widths, burst lengths and pages.
THEOREM BurstsAreTransfers ==
  ASSUME ReadsFit, WritesFit
  PROVE  BurstsSpec => BurstsImplementTransfer
<1>1. BurstsInit => /\ ReadCutInv /\ WriteCutInv
                    /\ Read!TransferInit /\ Write!TransferInit
  BY DEF BurstsInit, ReadCutInv, WriteCutInv, NextByte, BytesLeft, Read!TransferInit,
         Write!TransferInit
<1>2. ASSUME ReadCutInv, WriteCutInv, [BurstsNext]_<<readCut, writeCut>>
      PROVE  /\ ReadCutInv' /\ WriteCutInv'
             /\ [Read!TransferNext]_(Read!transferVars)
             /\ [Write!TransferNext]_(Write!transferVars)
  <2>1. UNCHANGED readCut => ReadCutInv' /\ UNCHANGED Read!transferVars
    BY <1>2
    DEF ReadCutInv, Asked, ReadFits, Covered, FirstWord, offset, readCut, controllerRegs,
        Read!transferVars, NextByte, BytesLeft
  <2>2. UNCHANGED writeCut => WriteCutInv' /\ UNCHANGED Write!transferVars
    BY <1>2 DEF WriteCutInv, WriteFits, StartsBurst, writeCut, Write!transferVars
  <2>3. CASE StartRead
    <3>1. ReadCutInv' /\ Read!Start
      BY <1>2, <2>3, ReadCutStarts DEF StartRead
    <3>2. UNCHANGED writeCut
      BY <2>3 DEF StartRead
    <3>3. QED BY <2>2, <3>1, <3>2 DEF Read!TransferNext
  <2>4. CASE ReadBurst
    <3>1. ReadCutInv' /\ Read!Burst
      BY <1>2, <2>4, ReadCutGoesOn DEF ReadBurst
    <3>2. UNCHANGED writeCut
      BY <2>4 DEF ReadBurst, writeCut
    <3>3. QED BY <2>2, <3>1, <3>2 DEF Read!TransferNext
  <2>5. CASE StartWrite
    <3>1. WriteCutInv' /\ Write!Start
      BY <1>2, <2>5, WriteCutStarts
    <3>2. UNCHANGED readCut
      BY <2>5 DEF StartWrite
    <3>3. QED BY <2>1, <3>1, <3>2 DEF Write!TransferNext
  <2>6. CASE WriteBurst
    <3>1. WriteCutInv' /\ Write!Burst
      BY <1>2, <2>6, WriteCutGoesOn DEF WriteBurst
    <3>2. UNCHANGED readCut
      BY <2>6 DEF WriteBurst
    <3>3. QED BY <2>1, <3>1, <3>2 DEF Write!TransferNext
  <2>7. CASE UNCHANGED <<readCut, writeCut>>
    BY <2>1, <2>2, <2>7
  <2>8. QED BY <1>2, <2>3, <2>4, <2>5, <2>6, <2>7 DEF BurstsNext, ReadBursts, WriteBursts
<1>3. QED
  BY <1>1, <1>2, PTL
  DEF BurstsSpec, BurstsImplementTransfer, Read!TransferSpec, Write!TransferSpec
=============================================================================
