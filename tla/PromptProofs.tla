---------------------------- MODULE PromptProofs ----------------------------
(***************************************************************************)
(* Proofs about the prompt: about LineEditor for every set of commands and *)
(* every bound, and about Session for every grammar, all lines and bounds. *)
(*                                                                         *)
(* The lemmas of the first section say what the String operations the      *)
(* editor is built from give: the end of a run of bytes, a trimmed line,   *)
(* the longest common prefix; those of the second, that cutting at a       *)
(* boundary and joining keep a text whole.  The last section is about      *)
(* sessions, with names that begin with S.                                 *)
(***************************************************************************)
EXTENDS LineEditor, Session, SequenceTheorems, WellFoundedInduction, NaturalsInduction, TLAPS

Bytes == Word \cup {Blank}

(* The line and the history hold texts, and the two invariants.            *)
Texts == input \in Seq(Bytes) /\ history \in Seq(Seq(Bytes))
Inv == Texts /\ CursorInLine /\ TextIsWhole

----------------------------------------------------------------------------
(* The String operations.                                                  *)

(* A set of numbers that is not empty has a least one, and Min chooses it. *)
LEMMA LeastOf ==
  ASSUME NEW S \in SUBSET Nat, S # {}
  PROVE  Min(S) \in S /\ \A x \in S : Min(S) <= x
  <1> DEFINE Less == {p \in Nat \X Nat : p[1] < p[2]}
  <1>1. IsWellFoundedOn(Less, Nat)
    BY NatLessThanWellFounded DEF OpToRel
  <1>2. PICK t \in S : \A u \in S : <<u, t>> \notin Less
    <2> HIDE DEF Less
    <2> QED
      BY <1>1, WFMin
  <1>3. \A u \in S : t <= u
    <2> TAKE u \in S
    <2>1. u \in Nat /\ t \in Nat /\ <<u, t>> \notin Less
      BY <1>2
    <2>2. u < t => <<u, t>> \in Less
      BY <2>1
    <2> QED
      BY <2>1, <2>2
  <1> QED
    BY <1>3 DEF Min

(* A set of numbers that is not empty and has a bound has a greatest one,  *)
(* and Max chooses it.                                                     *)
LEMMA GreatestOf ==
  ASSUME NEW S \in SUBSET Nat, S # {}, NEW n \in Nat, \A x \in S : x <= n
  PROVE  Max(S) \in S /\ \A x \in S : x <= Max(S)
  <1> DEFINE T == {n - x : x \in S}
             t == Min(T)
  <1>1. T \in SUBSET Nat /\ T # {}
    <2>1. \A x \in S : n - x \in Nat
      OBVIOUS
    <2> QED
      BY <2>1
  <1>2. t \in T /\ \A u \in T : t <= u
    <2> HIDE DEF T
    <2> QED
      BY <1>1, LeastOf
  <1>3. PICK x \in S : t = n - x
    BY <1>2
  <1>4. \A y \in S : y <= x
    <2> TAKE y \in S
    <2>1. n - y \in T
      OBVIOUS
    <2>2. t <= n - y
      BY <1>2, <2>1
    <2> HIDE DEF t
    <2> QED
      BY <1>3, <2>2
  <1> QED
    BY <1>4 DEF Max

(* LeftWhile and RightWhile stop in the text, where the run ends.          *)
LEMMA LeftEnds ==
  ASSUME NEW i \in Nat, NEW bytes
  PROVE  /\ LeftWhile(i, bytes) \in 0 .. i
         /\ LeftWhile(i, bytes) > 0 => input[LeftWhile(i, bytes)] \notin bytes
         /\ \A j \in LeftWhile(i, bytes) + 1 .. i : input[j] \in bytes
  <1> DEFINE S == {0} \cup {j \in 1 .. i : input[j] \notin bytes}
             m == Max(S)
  <1>1. S \in SUBSET Nat /\ S # {} /\ \A x \in S : x <= i
    OBVIOUS
  <1>2. m \in S /\ \A x \in S : x <= m
    <2> HIDE DEF S
    <2> QED
      BY <1>1, GreatestOf
  <1>3. LeftWhile(i, bytes) = m
    BY DEF LeftWhile
  <1> HIDE DEF m
  <1>4. m \in 0 .. i /\ (m > 0 => input[m] \notin bytes)
    BY <1>2
  <1>5. \A j \in m + 1 .. i : input[j] \in bytes
    BY <1>2, <1>4
  <1> QED
    BY <1>3, <1>4, <1>5

(* The same to the right.                                                  *)
LEMMA RightEnds ==
  ASSUME input \in Seq(Bytes), NEW i \in 0 .. Len(input), NEW bytes
  PROVE  /\ RightWhile(i, bytes) \in i .. Len(input)
         /\ RightWhile(i, bytes) < Len(input) => input[RightWhile(i, bytes) + 1] \notin bytes
  <1> DEFINE S == {Len(input)} \cup {j \in i .. Len(input) - 1 : input[j + 1] \notin bytes}
             m == Min(S)
  <1>1. S \in SUBSET Nat /\ S # {}
    OBVIOUS
  <1>2. m \in S
    <2> HIDE DEF S
    <2> QED
      BY <1>1, LeastOf
  <1>3. RightWhile(i, bytes) = m
    BY DEF RightWhile
  <1> HIDE DEF m
  <1> QED
    BY <1>2, <1>3

(* What trim leaves: nothing, or the text from the first byte that is no   *)
(* blank to the last.                                                      *)
LEMMA TrimmedIs ==
  ASSUME NEW s \in Seq(Bytes)
  PROVE  \/ Trimmed(s) = <<>>
         \/ \E m, n \in 1 .. Len(s) :
              /\ m <= n /\ Trimmed(s) = SubSeq(s, m, n)
              /\ s[m] # Blank /\ s[n] # Blank
              /\ \A i \in 1 .. Len(s) : i < m \/ i > n => s[i] = Blank
  <1> DEFINE kept == {i \in DOMAIN s : s[i] # Blank}
             m == Min(kept)
             n == Max(kept)
  <1>1. CASE kept = {}
    BY <1>1 DEF Trimmed
  <1>2. CASE kept # {}
    <2>1. kept \in SUBSET Nat /\ Len(s) \in Nat /\ \A x \in kept : x <= Len(s)
      OBVIOUS
    <2>2. m \in kept /\ \A x \in kept : m <= x
      <3> HIDE DEF kept
      <3> QED
        BY <1>2, <2>1, LeastOf
    <2>3. n \in kept /\ \A x \in kept : x <= n
      <3> HIDE DEF kept
      <3> QED
        BY <1>2, <2>1, GreatestOf
    <2>4. Trimmed(s) = SubSeq(s, m, n)
      BY <1>2 DEF Trimmed
    <2> HIDE DEF m, n
    <2>5. m \in 1 .. Len(s) /\ n \in 1 .. Len(s) /\ m <= n /\ s[m] # Blank /\ s[n] # Blank
      BY <2>2, <2>3
    <2>6. \A i \in 1 .. Len(s) : i < m \/ i > n => s[i] = Blank
      BY <2>2, <2>3, <2>5
    <2> QED
      BY <2>4, <2>5, <2>6
  <1> QED
    BY <1>1, <1>2

(* A name is made of letters, and a letter is neither a blank nor half a   *)
(* character.                                                              *)
LEMMA NamesAreLetters ==
  /\ \A name \in Commands : name \in Seq(Letters)
  /\ \A x \in Letters : x \notin {Blank, Lead, Trail}
  <1>1. ASSUME NEW name \in Commands
        PROVE  /\ name \in Seq(Letters)
               /\ \A i \in DOMAIN name : name[i] \notin {Blank, Lead, Trail}
    <2>1. name \in Seq(STRING \ {Blank, Lead, Trail})
      BY LineEditorAssumption
    <2>2. \A i \in 1 .. Len(name) : name[i] \in Letters
      BY <2>1, LenProperties DEF Letters
    <2>3. SubSeq(name, 1, Len(name)) \in Seq(Letters)
      BY <2>1, <2>2, LenProperties, SubSeqProperties
    <2>4. SubSeq(name, 1, Len(name)) = name
      BY <2>1, SubSeqFull
    <2>5. \A i \in DOMAIN name : name[i] \in STRING \ {Blank, Lead, Trail}
      BY <2>1, LenProperties, ElementOfSeq
    <2> QED
      BY <2>3, <2>4, <2>5
  <1> QED
    BY <1>1 DEF Letters

(* The longest common prefix of the names that match exists.               *)
LEMMA CommonIsText ==
  ASSUME Matches # {}
  PROVE  Common \in Seq(Letters)
  <1> DEFINE P == CommonPrefixes(Matches)
             lengths == {Len(p) : p \in P}
  <1>1. \A name \in Matches : name \in Seq(Letters)
    BY NamesAreLetters DEF Matches
  <1>2. PICK name \in Matches : name \in Seq(Letters) /\ Len(name) \in Nat
    BY <1>1, LenProperties
  <1>3. <<>> \in P
    <2>1. <<>> \in Prefixes(name)
      BY <1>2, SubSeqEmpty DEF Prefixes
    <2>2. \A t \in Matches : IsPrefix(<<>>, t)
      <3> TAKE t \in Matches
      <3>1. Len(t) \in Nat
        BY <1>1, LenProperties
      <3>2. SubSeq(t, 1, 0) = <<>> /\ Len(<<>>) = 0 /\ SubSeq(<<>>, 1, 0) = <<>>
        BY SubSeqEmpty
      <3> QED
        BY <3>1, <3>2 DEF IsPrefix
    <2> QED
      BY <2>1, <2>2 DEF CommonPrefixes
  <1>4. ASSUME NEW p \in P
        PROVE  p \in Seq(Letters) /\ Len(p) \in Nat /\ Len(p) <= Len(name)
    <2>1. PICK t \in Matches : p \in Prefixes(t)
      BY DEF CommonPrefixes
    <2>2. PICK l \in 0 .. Len(t) : p = SubSeq(t, 1, l)
      BY <2>1 DEF Prefixes
    <2>3. t \in Seq(Letters) /\ Len(t) \in Nat /\ \A i \in 1 .. l : t[i] \in Letters
      BY <1>1, <2>2, LenProperties, ElementOfSeq
    <2>4. p \in Seq(Letters)
      BY <2>2, <2>3, SubSeqProperties
    <2>5. IsPrefix(p, name)
      BY DEF CommonPrefixes
    <2> QED
      BY <2>4, <2>5, LenProperties DEF IsPrefix
  <1>5. PICK longest \in P : \A other \in P : Len(other) <= Len(longest)
    <2>1. lengths \in SUBSET Nat /\ lengths # {} /\ \A x \in lengths : x <= Len(name)
      BY <1>3, <1>4
    <2>2. Max(lengths) \in lengths /\ \A x \in lengths : x <= Max(lengths)
      <3> HIDE DEF lengths
      <3> QED
        BY <1>2, <2>1, GreatestOf
    <2> QED
      BY <2>2
  <1>6. Common \in P
    BY <1>5 DEF Common, LongestCommonPrefix
  <1> QED
    BY <1>4, <1>6

----------------------------------------------------------------------------
(* Whole texts.                                                            *)

(* Between characters: Boundary, for any text.                             *)
Border(text, i) == i = 0 \/ i = Len(text) \/ text[i + 1] # Trail

(* What lies between two boundaries of a whole text is whole.              *)
LEMMA WholePart ==
  ASSUME NEW s \in Seq(Bytes), NEW i \in 0 .. Len(s), NEW j \in 0 .. Len(s)
  PROVE  /\ SubSeq(s, i + 1, j) \in Seq(Bytes)
         /\ Len(SubSeq(s, i + 1, j)) = IF i <= j THEN j - i ELSE 0
         /\ Whole(s) /\ Border(s, i) /\ Border(s, j) => Whole(SubSeq(s, i + 1, j))
  <1> DEFINE part == SubSeq(s, i + 1, j)
  <1>0. DOMAIN s = 1 .. Len(s) /\ \A k \in i + 1 .. j : s[k] \in Bytes
    BY LenProperties, ElementOfSeq
  <1>1. Len(s) \in Nat
    BY LenProperties
  <1>2. /\ part \in Seq(Bytes)
        /\ Len(part) = IF i + 1 <= j THEN j - (i + 1) + 1 ELSE 0
        /\ \A k \in 1 .. j - (i + 1) + 1 : part[k] = s[(i + 1) + k - 1]
    BY <1>0, <1>1, SubSeqProperties
  <1>3. DOMAIN part = 1 .. Len(part)
    BY <1>2, LenProperties
  <1> HIDE DEF part
  <1>4. \A k \in 1 .. j - i : part[k] = s[i + k]
    <2> TAKE k \in 1 .. j - i
    <2>1. k \in 1 .. j - (i + 1) + 1 /\ (i + 1) + k - 1 = i + k
      BY <1>1
    <2>2. part[k] = s[(i + 1) + k - 1]
      BY <1>2, <2>1
    <2> QED
      BY <2>1, <2>2
  <1>5. ASSUME Whole(s), Border(s, i), Border(s, j), NEW k \in DOMAIN part
        PROVE  /\ part[k] = Lead => k < Len(part) /\ part[k + 1] = Trail
               /\ part[k] = Trail => k > 1 /\ part[k - 1] = Lead
    <2> DEFINE l == i + k
    <2>1. k \in 1 .. j - i /\ Len(part) = j - i
      BY <1>1, <1>2, <1>3
    <2>2. l \in 1 .. Len(s) /\ part[k] = s[l]
      BY <1>1, <1>4, <2>1
    <2>3. k > 1 => part[k - 1] = s[l - 1]
      <3> HAVE k > 1
      <3>1. k - 1 \in 1 .. j - i /\ i + (k - 1) = l - 1
        BY <1>1, <2>1
      <3> QED
        BY <1>4, <3>1
    <2>4. k < j - i => part[k + 1] = s[l + 1]
      <3> HAVE k < j - i
      <3>1. k + 1 \in 1 .. j - i /\ i + (k + 1) = l + 1
        BY <1>1, <2>1
      <3> QED
        BY <1>4, <3>1
    <2>5. (k = 1 => l = i + 1 /\ i < Len(s)) /\ (k = j - i => l = j)
      BY <1>1, <2>1
    <2> HIDE DEF l
    <2>6. /\ s[l] = Lead => l < Len(s) /\ s[l + 1] = Trail
          /\ s[l] = Trail => l > 1 /\ s[l - 1] = Lead
      BY <1>0, <1>5, <2>2 DEF Whole
    <2>7. s[l] = Trail => k > 1
      <3> SUFFICES ASSUME s[l] = Trail, k = 1 PROVE FALSE
        BY <2>1
      <3>1. i = 0
        BY <1>1, <1>5, <2>5 DEF Border
      <3> QED
        BY <2>5, <2>6, <3>1
    <2>8. s[l] = Lead => k < j - i
      <3> SUFFICES ASSUME s[l] = Lead, k = j - i PROVE FALSE
        BY <2>1
      <3>1. l = j /\ l < Len(s) /\ s[l + 1] = Trail /\ j # 0
        BY <2>1, <2>5, <2>6
      <3> QED
        BY <1>1, <1>5, <3>1 DEF Border
    <2> QED
      BY <2>1, <2>2, <2>3, <2>4, <2>6, <2>7, <2>8
  <1>6. Whole(s) /\ Border(s, i) /\ Border(s, j) => Whole(part)
    BY <1>5 DEF Whole
  <1>7. Len(part) = IF i <= j THEN j - i ELSE 0
    BY <1>1, <1>2
  <1> QED
    BY <1>2, <1>6, <1>7 DEF part

(* Two whole texts make a whole one.                                       *)
LEMMA WholeJoin ==
  ASSUME NEW a \in Seq(Bytes), NEW b \in Seq(Bytes)
  PROVE  /\ a \o b \in Seq(Bytes) /\ Len(a \o b) = Len(a) + Len(b)
         /\ Whole(a) /\ Whole(b) => Whole(a \o b)
  <1> DEFINE c == a \o b
  <1>1. /\ c \in Seq(Bytes) /\ Len(c) = Len(a) + Len(b)
        /\ \A i \in 1 .. Len(a) + Len(b) : c[i] = IF i <= Len(a) THEN a[i] ELSE b[i - Len(a)]
    BY ConcatProperties
  <1>2. /\ Len(a) \in Nat /\ Len(b) \in Nat /\ DOMAIN c = 1 .. Len(c)
        /\ DOMAIN a = 1 .. Len(a) /\ DOMAIN b = 1 .. Len(b)
    BY <1>1, LenProperties
  <1>3. ASSUME Whole(a), Whole(b), NEW i \in DOMAIN c
        PROVE  /\ c[i] = Lead => i < Len(c) /\ c[i + 1] = Trail
               /\ c[i] = Trail => i > 1 /\ c[i - 1] = Lead
    <2> HIDE DEF c
    <2>1. CASE i <= Len(a)
      <3>1. i \in DOMAIN a /\ c[i] = a[i] /\ (i < Len(a) => c[i + 1] = a[i + 1])
            /\ (i > 1 => c[i - 1] = a[i - 1])
        BY <1>1, <1>2, <2>1
      <3>2. /\ a[i] = Lead => i < Len(a) /\ a[i + 1] = Trail
            /\ a[i] = Trail => i > 1 /\ a[i - 1] = Lead
        BY <1>3, <3>1 DEF Whole
      <3> QED
        BY <1>1, <1>2, <3>1, <3>2
    <2>2. CASE i > Len(a)
      <3> DEFINE k == i - Len(a)
      <3>1. k \in DOMAIN b /\ c[i] = b[k] /\ (k < Len(b) => c[i + 1] = b[k + 1])
            /\ (k > 1 => c[i - 1] = b[k - 1])
        BY <1>1, <1>2, <2>2
      <3>2. /\ b[k] = Lead => k < Len(b) /\ b[k + 1] = Trail
            /\ b[k] = Trail => k > 1 /\ b[k - 1] = Lead
        BY <1>3, <3>1 DEF Whole
      <3>3. k \in Nat /\ i = k + Len(a) /\ i \in Nat
        BY <1>1, <1>2, <2>2
      <3> HIDE DEF k
      <3> QED
        BY <1>1, <1>2, <3>1, <3>2, <3>3
    <2> QED
      BY <1>1, <1>2, <2>1, <2>2
  <1>4. Whole(a) /\ Whole(b) => Whole(c)
    BY <1>3 DEF Whole
  <1> QED
    BY <1>1, <1>4

(* Letters, a blank and a wide character are whole.                        *)
LEMMA WholeTexts ==
  /\ <<>> \in Seq(Bytes) /\ Whole(<<>>)
  /\ <<Blank>> \in Seq(Bytes) /\ Whole(<<Blank>>)
  /\ \A c \in Characters : c \in Seq(Bytes) /\ Len(c) \in {1, 2} /\ Whole(c)
  /\ \A s \in Seq(Letters) : s \in Seq(Bytes) /\ Whole(s)
  <1>1. <<>> \in Seq(Bytes) /\ Whole(<<>>)
    BY DEF Whole
  <1>2. ASSUME NEW x \in Letters \cup {Blank}
        PROVE  <<x>> \in Seq(Bytes) /\ Len(<<x>>) = 1 /\ Whole(<<x>>)
    <2>1. x \in Bytes /\ x # Lead /\ x # Trail
      BY NamesAreLetters DEF Bytes, Word, Blank, Lead, Trail
    <2> QED
      BY <2>1 DEF Whole
  <1>3. <<Lead, Trail>> \in Seq(Bytes) /\ Len(<<Lead, Trail>>) = 2 /\ Whole(<<Lead, Trail>>)
    BY DEF Whole, Bytes, Word, Lead, Trail
  <1>4. ASSUME NEW s \in Seq(Letters)
        PROVE  s \in Seq(Bytes) /\ Whole(s)
    <2>1. \A i \in DOMAIN s : s[i] \in Letters
      BY LenProperties, ElementOfSeq
    <2>2. s \in Seq(Bytes)
      BY SeqMonotonic DEF Bytes, Word
    <2> QED
      BY <2>1, <2>2, NamesAreLetters DEF Whole
  <1> QED
    BY <1>1, <1>2, <1>3, <1>4 DEF Characters

(* Trimming takes whole characters.                                        *)
LEMMA WholeTrimmed ==
  ASSUME NEW s \in Seq(Bytes), Whole(s)
  PROVE  Trimmed(s) \in Seq(Bytes) /\ Whole(Trimmed(s))
  <1>1. CASE Trimmed(s) = <<>>
    BY <1>1, WholeTexts
  <1>2. ASSUME NEW m \in 1 .. Len(s), NEW n \in 1 .. Len(s),
               m <= n, Trimmed(s) = SubSeq(s, m, n), s[m] # Blank, s[n] # Blank,
               \A i \in 1 .. Len(s) : i < m \/ i > n => s[i] = Blank
        PROVE  Trimmed(s) \in Seq(Bytes) /\ Whole(Trimmed(s))
    <2>0. DOMAIN s = 1 .. Len(s)
      BY LenProperties
    <2>1. Len(s) \in Nat
      BY LenProperties
    <2>2. Border(s, m - 1)
      <3>1. SUFFICES ASSUME m > 1, s[m] = Trail PROVE FALSE
        BY <2>1 DEF Border
      <3>2. s[m - 1] = Lead
        BY <2>0, <2>1, <3>1 DEF Whole
      <3>3. s[m - 1] = Blank
        BY <1>2, <2>1, <3>1
      <3> QED
        BY <3>2, <3>3 DEF Blank, Lead
    <2>3. Border(s, n)
      <3>1. SUFFICES ASSUME n # Len(s), s[n + 1] = Trail PROVE FALSE
        BY DEF Border
      <3>2. s[n + 1] = Blank
        BY <1>2, <2>1, <3>1
      <3> QED
        BY <3>1, <3>2 DEF Blank, Trail
    <2>4. m - 1 \in 0 .. Len(s) /\ n \in 0 .. Len(s) /\ (m - 1) + 1 = m
      BY <2>1
    <2> DEFINE k == m - 1
    <2>5. SubSeq(s, k + 1, n) \in Seq(Bytes) /\ Whole(SubSeq(s, k + 1, n))
      <3>1. k \in 0 .. Len(s) /\ Border(s, k)
        BY <2>2, <2>4
      <3> HIDE DEF k
      <3> QED
        BY <2>3, <2>4, <3>1, WholePart
    <2> QED
      BY <1>2, <2>4, <2>5
  <1> QED
    BY <1>1, <1>2, TrimmedIs

----------------------------------------------------------------------------
(* The steps.                                                              *)

(* What every step needs of the state: lengths are numbers, and Boundary   *)
(* is the Border of the line.                                              *)
LEMMA Numbers ==
  ASSUME Inv
  PROVE  /\ input \in Seq(Bytes) /\ Len(input) \in Nat /\ cursor \in 0 .. Len(input)
         /\ Len(history) \in Nat /\ index \in -1 .. Len(history) - 1
         /\ \A i \in 0 .. Len(input) : Boundary(i) <=> Border(input, i)
  BY LenProperties DEF Inv, Texts, CursorInLine, Boundary, Border

(* A step that puts a whole text in the line with the cursor in it, and    *)
(* leaves the history.                                                     *)
LEMMA LineSteps ==
  ASSUME Inv, UNCHANGED <<past, editor>>, editor # "dead",
         input' \in Seq(Bytes), Whole(input'), cursor' \in 0 .. Len(input')
  PROVE  Inv'
  BY DEF Inv, Texts, CursorInLine, TextIsWhole, past, Whole

(* A step that leaves the line and the history.                            *)
LEMMA OtherSteps ==
  ASSUME Inv, UNCHANGED <<line, past>>, editor' = editor \/ editor' # "dead"
  PROVE  Inv'
  BY DEF Inv, Texts, CursorInLine, TextIsWhole, line, past, Whole

(* A step that panics does so inside a wide character.                     *)
LEMMA PanicSteps ==
  ASSUME Inv, UNCHANGED <<line, past>>, NEW i \in 0 .. Len(input), ~Boundary(i)
  PROVE  Inv'
  <1>1. i + 1 \in DOMAIN input /\ input[i + 1] = Trail
    <2>1. i # Len(input) /\ input[i + 1] = Trail
      BY DEF Boundary
    <2>2. i + 1 \in 1 .. Len(input)
      BY Numbers, <2>1
    <2> QED
      BY <2>1, <2>2, Numbers, LenProperties
  <1> QED
    BY <1>1 DEF Inv, Texts, CursorInLine, TextIsWhole, line, past, Whole

(* What is left and right of two places in the line, with a text between.  *)
LEMMA Spliced ==
  ASSUME Inv, NEW i \in 0 .. Len(input), NEW j \in 0 .. Len(input),
         NEW text \in Seq(Bytes), Whole(text), Boundary(i), Boundary(j)
  PROVE  LET new == SubSeq(input, 1, i) \o text \o SubSeq(input, j + 1, Len(input))
         IN  new \in Seq(Bytes) /\ Whole(new) /\ Len(new) = i + Len(text) + Len(input) - j
  <1> DEFINE n == Len(input)
             a == SubSeq(input, 1, i)
             b == SubSeq(input, j + 1, n)
  <1>1. /\ n \in Nat /\ n \in 0 .. n /\ 0 \in 0 .. n /\ Len(text) \in Nat
        /\ Border(input, i) /\ Border(input, j) /\ Border(input, 0) /\ Border(input, n)
        /\ input \in Seq(Bytes) /\ Whole(input)
    <2>1. n \in Nat /\ Len(text) \in Nat /\ input \in Seq(Bytes) /\ Whole(input)
      BY Numbers, LenProperties DEF Inv, TextIsWhole
    <2>2. Border(input, i) /\ Border(input, j)
      BY Numbers DEF Border, Boundary
    <2> QED
      BY <2>1, <2>2 DEF Border
  <1>2. a \in Seq(Bytes) /\ Len(a) = i /\ Whole(a)
    <2> DEFINE z == 0
    <2>1. /\ SubSeq(input, z + 1, i) \in Seq(Bytes)
          /\ Len(SubSeq(input, z + 1, i)) = IF z <= i THEN i - z ELSE 0
          /\ Whole(SubSeq(input, z + 1, i))
      <3>1. z \in 0 .. Len(input) /\ Border(input, z)
        BY <1>1
      <3> HIDE DEF z
      <3> QED
        BY <1>1, <3>1, WholePart
    <2> QED
      BY <2>1
  <1>3. b \in Seq(Bytes) /\ Len(b) = n - j /\ Whole(b)
    <2>1. /\ b \in Seq(Bytes)
          /\ Len(b) = IF j <= n THEN n - j ELSE 0
          /\ Whole(b)
      BY <1>1, WholePart
    <2> QED
      BY <1>1, <2>1
  <1>4. a \o text \in Seq(Bytes) /\ Len(a \o text) = i + Len(text) /\ Whole(a \o text)
    <2> HIDE DEF a
    <2> QED
      BY <1>2, WholeJoin
  <1> DEFINE c == a \o text
  <1>5. c \o b \in Seq(Bytes) /\ Len(c \o b) = Len(c) + Len(b) /\ Whole(c \o b)
    <2>1. c \in Seq(Bytes) /\ Whole(c)
      BY <1>4
    <2> HIDE DEF c, b
    <2> QED
      BY <1>3, <2>1, WholeJoin
  <1>6. Len(c \o b) = i + Len(text) + n - j
    BY <1>1, <1>3, <1>4, <1>5
  <1> QED
    BY <1>5, <1>6

(* A cut is a splice of nothing.                                           *)
LEMMA Shortened ==
  ASSUME Inv, NEW i \in 0 .. Len(input), NEW j \in i .. Len(input), Boundary(i), Boundary(j)
  PROVE  Without(i, j) \in Seq(Bytes) /\ Whole(Without(i, j)) /\ i \in 0 .. Len(Without(i, j))
  <1> DEFINE a == SubSeq(input, 1, i)
             b == SubSeq(input, j + 1, Len(input))
             e == <<>>
  <1>0. Len(input) \in Nat /\ input \in Seq(Bytes)
    BY Numbers
  <1>1. /\ Len(input) \in Nat /\ j \in 0 .. Len(input) /\ input \in Seq(Bytes)
        /\ e \in Seq(Bytes) /\ Whole(e) /\ Len(e) = 0
    BY <1>0, WholeTexts
  <1>2. a \in Seq(Bytes)
    BY <1>1, SubSeqProperties, ElementOfSeq
  <1>3. a \o e = a
    <2> HIDE DEF a
    <2> QED
      BY <1>2, ConcatEmptySeq
  <1>4. LET new == a \o e \o b
        IN  new \in Seq(Bytes) /\ Whole(new) /\ Len(new) = i + Len(e) + Len(input) - j
    <2> HIDE DEF e
    <2> QED
      BY <1>1, Spliced
  <1>5. Without(i, j) = a \o e \o b
    BY <1>3 DEF Without
  <1> HIDE DEF a, b, e
  <1>6. Without(i, j) \in Seq(Bytes) /\ Whole(Without(i, j)) /\ Len(Without(i, j)) = i + Len(e) + Len(input) - j
    BY <1>4, <1>5
  <1>7. i \in 0 .. Len(Without(i, j))
    BY <1>1, <1>6
  <1> QED
    BY <1>6, <1>7

(* A word begins after a blank, and ends in the line.                      *)
LEMMA WordEnds ==
  ASSUME Inv
  PROVE  /\ WordLeft \in 0 .. cursor /\ WordRight \in cursor .. Len(input)
         /\ LeftWhile(cursor, Word) \in 0 .. cursor /\ Boundary(LeftWhile(cursor, Word))
  <1>1. WordLeft \in 0 .. cursor
    <2> DEFINE i == LeftWhile(cursor, {Blank})
    <2>1. i \in 0 .. cursor /\ cursor \in Nat
      BY Numbers, LeftEnds
    <2>2. LeftWhile(i, Word) \in 0 .. i
      <3> HIDE DEF i
      <3> QED
        BY <2>1, LeftEnds
    <2> QED
      BY <2>1, <2>2 DEF WordLeft
  <1>2. WordRight \in cursor .. Len(input)
    <2> DEFINE i == RightWhile(cursor, Word)
    <2>1. i \in cursor .. Len(input) /\ cursor \in Nat
      BY Numbers, RightEnds
    <2>2. RightWhile(i, {Blank}) \in i .. Len(input)
      <3>1. i \in 0 .. Len(input) /\ input \in Seq(Bytes)
        BY <2>1, Numbers
      <3> HIDE DEF i
      <3> QED
        BY <3>1, RightEnds
    <2> QED
      BY <2>1, <2>2 DEF WordRight
  <1>3. LeftWhile(cursor, Word) \in 0 .. cursor /\ Boundary(LeftWhile(cursor, Word))
    <2> DEFINE i == LeftWhile(cursor, Word)
    <2>1. i \in 0 .. cursor /\ (i > 0 => input[i] \notin Word)
      BY Numbers, LeftEnds
    <2> HIDE DEF i
    <2>2. i = 0 \/ i = Len(input) => Boundary(i)
      BY <2>1, Numbers DEF Boundary
    <2>3. i # 0 /\ i # Len(input) => Boundary(i)
      <3> HAVE i # 0 /\ i # Len(input)
      <3>1. i \in 1 .. Len(input) /\ i + 1 \in 1 .. Len(input) /\ input[i] \notin Word
        BY <2>1, Numbers
      <3>2. DOMAIN input = 1 .. Len(input) /\ input[i] # Lead
        BY <3>1, Numbers, LenProperties DEF Word
      <3>3. input[i + 1] # Trail
        <4>1. input[i + 1] = Trail => input[(i + 1) - 1] = Lead
          BY <3>1, <3>2 DEF Inv, TextIsWhole, Whole
        <4>2. (i + 1) - 1 = i
          BY <2>1, Numbers
        <4> QED
          BY <3>2, <4>1, <4>2
      <3> QED
        BY <3>1, <3>3, Numbers DEF Boundary
    <2> QED
      BY <2>1, <2>2, <2>3 DEF i
  <1> QED
    BY <1>1, <1>2, <1>3

(* Typing splices a character in, or panics between the bytes of one.      *)
LEMMA TypeSteps ==
  ASSUME Inv, NEW c \in Characters, Type(c)
  PROVE  Inv'
  <1>1. CASE Boundary(cursor)
    <2>1. /\ input' = SubSeq(input, 1, cursor) \o c \o SubSeq(input, cursor + 1, Len(input))
          /\ cursor' = cursor + 1 /\ UNCHANGED <<past, app, editor>> /\ editor = "up"
      BY <1>1 DEF Type, Edit
    <2>2. c \in Seq(Bytes) /\ Len(c) \in {1, 2} /\ Whole(c)
      BY WholeTexts
    <2>3. input' \in Seq(Bytes) /\ Whole(input') /\ Len(input') = cursor + Len(c) + Len(input) - cursor
      BY <1>1, <2>1, <2>2, Numbers, Spliced
    <2>4. cursor' \in 0 .. Len(input')
      <3>1. cursor \in Nat /\ Len(input) \in Nat /\ cursor <= Len(input)
        BY Numbers
      <3> DEFINE n == Len(input)
                 m == Len(input')
                 w == Len(c)
      <3>2. n \in Nat /\ cursor <= n /\ w \in {1, 2} /\ m = cursor + w + n - cursor
        BY <2>2, <2>3, <3>1
      <3> HIDE DEF n, m, w
      <3>3. cursor + 1 \in 0 .. m
        BY <3>1, <3>2
      <3> QED
        BY <2>1, <3>3 DEF m
    <2> QED
      BY <2>1, <2>3, <2>4, LineSteps
  <1>2. CASE ~Boundary(cursor)
    <2>1. UNCHANGED <<line, past>>
      BY <1>2 DEF Type, Panic, line, past
    <2> QED
      BY <1>2, <2>1, Numbers, PanicSteps
  <1> QED
    BY <1>1, <1>2

(* Moves end in the line.                                                  *)
LEMMA MoveSteps ==
  ASSUME Inv, Move
  PROVE  Inv'
  <1>1. UNCHANGED <<input, past, editor>> /\ editor = "up"
    BY DEF Move, Key
  <1>2. cursor' \in 0 .. Len(input)
    BY Numbers, WordEnds DEF Move
  <1>3. input \in Seq(Bytes) /\ Whole(input)
    BY DEF Inv, Texts, TextIsWhole
  <1> QED
    BY <1>1, <1>2, <1>3, LineSteps

(* Cut, from any place in the line to a later one.                         *)
LEMMA CutSteps ==
  ASSUME Inv, NEW i \in 0 .. Len(input), NEW j \in 0 .. Len(input), Cut(i, j)
  PROVE  Inv'
  <1>1. CASE Boundary(i) /\ Boundary(j)
    <2>1. /\ i < j /\ editor = "up" /\ input' = Without(i, j) /\ cursor' = i
          /\ UNCHANGED <<past, app, editor>>
      BY <1>1 DEF Cut, Edit
    <2>2. j \in i .. Len(input)
      BY <2>1, Numbers
    <2>3. Without(i, j) \in Seq(Bytes) /\ Whole(Without(i, j)) /\ i \in 0 .. Len(Without(i, j))
      BY <1>1, <2>2, Shortened
    <2> QED
      BY <2>1, <2>3, LineSteps
  <1>2. CASE ~(Boundary(i) /\ Boundary(j))
    <2>1. UNCHANGED <<line, past>>
      BY <1>2 DEF Cut, Panic, line, past
    <2> QED
      BY <1>2, <2>1, PanicSteps
  <1> QED
    BY <1>1, <1>2

(* String::remove takes one character, whose end is the next boundary.     *)
LEMMA DeleteSteps ==
  ASSUME Inv, NEW i \in Int, DeleteAt(i)
  PROVE  Inv'
  <1>1. i \in 0 .. Len(input) - 1 /\ editor = "up"
    BY DEF DeleteAt, Edit
  <1>2. CASE Boundary(i)
    <2> DEFINE j == i + IF input[i + 1] = Lead THEN 2 ELSE 1
    <2>1. input' = Without(i, j) /\ cursor' = i /\ UNCHANGED <<past, app, editor>>
      BY <1>2 DEF DeleteAt
    <2>2. /\ DOMAIN input = 1 .. Len(input)
          /\ \A k \in 1 .. Len(input) :
               /\ input[k] = Lead => k < Len(input) /\ input[k + 1] = Trail
               /\ input[k] = Trail => k > 1 /\ input[k - 1] = Lead
      BY Numbers, LenProperties DEF Inv, TextIsWhole, Whole
    <2>3. j \in i .. Len(input) /\ Boundary(j)
      <3>1. i + 1 \in 1 .. Len(input) /\ Len(input) \in Nat
        BY <1>1, Numbers
      <3>2. CASE input[i + 1] = Lead
        <4>1. i + 1 < Len(input) /\ input[(i + 1) + 1] = Trail
          BY <2>2, <3>1, <3>2
        <4>2. j = i + 2 /\ (i + 1) + 1 = i + 2 /\ j <= Len(input) /\ j \in i .. Len(input)
          BY <1>1, <3>1, <3>2, <4>1
        <4>3. j < Len(input) => input[j + 1] # Trail
          <5> HAVE j < Len(input)
          <5>1. j + 1 \in 1 .. Len(input) /\ (j + 1) - 1 = i + 2
            BY <1>1, <3>1, <4>2
          <5>2. input[j + 1] = Trail => input[(j + 1) - 1] = Lead
            BY <2>2, <5>1
          <5> QED
            BY <4>1, <4>2, <5>1, <5>2 DEF Lead, Trail
        <4> HIDE DEF j
        <4> QED
          BY <3>1, <4>2, <4>3 DEF Boundary
      <3>3. CASE input[i + 1] # Lead
        <4>1. j = i + 1 /\ j \in i .. Len(input)
          BY <1>1, <3>1, <3>3
        <4>2. j < Len(input) => input[j + 1] # Trail
          <5> HAVE j < Len(input)
          <5>1. j + 1 \in 1 .. Len(input) /\ (j + 1) - 1 = i + 1
            BY <1>1, <3>1, <4>1
          <5>2. input[j + 1] = Trail => input[(j + 1) - 1] = Lead
            BY <2>2, <5>1
          <5> QED
            BY <3>3, <5>1, <5>2
        <4> HIDE DEF j
        <4> QED
          BY <3>1, <4>1, <4>2 DEF Boundary
      <3> QED
        BY <3>2, <3>3
    <2> HIDE DEF j
    <2>4. Without(i, j) \in Seq(Bytes) /\ Whole(Without(i, j)) /\ i \in 0 .. Len(Without(i, j))
      <3>1. i \in 0 .. Len(input)
        BY <1>1, Numbers
      <3> QED
        BY <1>2, <2>3, <3>1, Shortened
    <2> QED
      BY <1>1, <2>1, <2>4, LineSteps
  <1>3. CASE ~Boundary(i)
    <2>1. UNCHANGED <<line, past>> /\ i \in 0 .. Len(input)
      BY <1>1, <1>3, Numbers DEF DeleteAt
    <2> QED
      BY <1>3, <2>1, PanicSteps
  <1> QED
    BY <1>2, <1>3

(* Tab splices the common prefix in for the part of a word.                *)
LEMMA CompleteSteps ==
  ASSUME Inv, Complete
  PROVE  Inv'
  <1>1. CASE Boundary(cursor)
    <2> DEFINE start == LeftWhile(cursor, Word)
               blank == IF Cardinality(Matches) = 1 /\ cursor = Len(input) THEN <<Blank>> ELSE <<>>
               added == Common \o blank
    <2>1. /\ Matches # {}
          /\ input' = SubSeq(input, 1, start) \o added \o SubSeq(input, cursor + 1, Len(input))
          /\ cursor' = start + Len(added)
          /\ UNCHANGED <<past, app, editor>> /\ editor = "up"
      BY <1>1 DEF Complete, Edit
    <2>2. added \in Seq(Bytes) /\ Whole(added) /\ Len(added) \in Nat
      <3>1. Common \in Seq(Bytes) /\ Whole(Common)
        BY <2>1, CommonIsText, WholeTexts
      <3>2. blank \in Seq(Bytes) /\ Whole(blank)
        BY WholeTexts
      <3> HIDE DEF blank
      <3>3. added \in Seq(Bytes) /\ Whole(added)
        BY <3>1, <3>2, WholeJoin
      <3> QED
        BY <3>3, LenProperties
    <2>3. start \in 0 .. Len(input) /\ Boundary(start)
      BY WordEnds, Numbers
    <2> HIDE DEF start, added
    <2>4. /\ input' \in Seq(Bytes) /\ Whole(input')
          /\ Len(input') = start + Len(added) + Len(input) - cursor
      BY <1>1, <2>1, <2>2, <2>3, Numbers, Spliced
    <2>5. cursor' \in 0 .. Len(input')
      BY <2>1, <2>2, <2>3, <2>4, Numbers
    <2> QED
      BY <2>1, <2>4, <2>5, LineSteps
  <1>2. CASE ~Boundary(cursor)
    <2>1. UNCHANGED <<line, past>>
      BY <1>2 DEF Complete, Panic, line, past
    <2> QED
      BY <1>2, <2>1, Numbers, PanicSteps
  <1> QED
    BY <1>1, <1>2

(* Fetching a line of the history, or none.                                *)
LEMMA HistorySteps ==
  ASSUME Inv, HistoryUp \/ HistoryDown
  PROVE  Inv'
  <1>1. /\ \A i \in 1 .. Len(history) : history[i] \in Seq(Bytes) /\ Whole(history[i])
        /\ history \in Seq(Seq(Bytes)) /\ \A i \in DOMAIN history : Whole(history[i])
    BY LenProperties, ElementOfSeq DEF Inv, Texts, TextIsWhole
  <1>2. /\ input' \in Seq(Bytes) /\ Whole(input') /\ cursor' = Len(input')
        /\ index' \in -1 .. Len(history) - 1 /\ UNCHANGED <<history, editor>> /\ editor = "up"
    <2>1. CASE HistoryUp
      <3>1. Len(history) > 0
        BY <1>1, <2>1, EmptySeq DEF HistoryUp
      <3>2. index' \in 0 .. Len(history) - 1 /\ index' + 1 \in 1 .. Len(history)
        BY <2>1, <3>1, Numbers DEF HistoryUp
      <3> QED
        BY <1>1, <2>1, <3>2, Numbers DEF HistoryUp, Edit
    <2>2. CASE HistoryDown
      <3>1. CASE index <= 0
        BY <2>2, <3>1, WholeTexts, Numbers DEF HistoryDown, Edit
      <3>2. CASE index > 0
        <4>1. index \in 1 .. Len(history) /\ index - 1 \in -1 .. Len(history) - 1 /\ ~(index <= 0)
          BY <3>2, Numbers
        <4> QED
          BY <1>1, <2>2, <4>1 DEF HistoryDown, Edit
      <3> QED
        BY <3>1, <3>2, Numbers
    <2> QED
      BY <2>1, <2>2
  <1>3. cursor' \in 0 .. Len(input')
    BY <1>2, LenProperties
  <1> QED
    BY <1>1, <1>2, <1>3 DEF Inv, Texts, CursorInLine, TextIsWhole

(* A line that is entered goes into the history, trimmed.                  *)
LEMMA EnterSteps ==
  ASSUME Inv, Enter
  PROVE  Inv'
  <1> DEFINE t == Trimmed(input)
  <1>1. t \in Seq(Bytes) /\ Whole(t)
    BY WholeTrimmed DEF Inv, Texts, TextIsWhole
  <1>2. /\ index' = -1 /\ input' = <<>> /\ cursor' = 0 /\ editor' # "dead"
        /\ history' = <<t>> \o history \/ history' = history
    BY DEF Enter, Edit, app
  <1> HIDE DEF t
  <1>3. history' \in Seq(Seq(Bytes)) /\ \A i \in DOMAIN history' : Whole(history'[i])
    <2>1. history \in Seq(Seq(Bytes)) /\ \A i \in DOMAIN history : Whole(history[i])
      BY DEF Inv, Texts, TextIsWhole
    <2>2. CASE history' = history
      BY <2>1, <2>2
    <2>3. CASE history' = <<t>> \o history
      <3> DEFINE one == <<t>>
      <3>1. one \in Seq(Seq(Bytes)) /\ Len(one) = 1 /\ one[1] = t
        BY <1>1
      <3> HIDE DEF one
      <3>2. /\ one \o history \in Seq(Seq(Bytes)) /\ Len(one \o history) = 1 + Len(history)
            /\ \A i \in 1 .. 1 + Len(history) :
                 (one \o history)[i] = IF i <= 1 THEN one[i] ELSE history[i - 1]
        <4> DEFINE S == Seq(Bytes)
        <4>1. one \in Seq(S) /\ history \in Seq(S)
          BY <2>1, <3>1
        <4> HIDE DEF S
        <4>2. /\ one \o history \in Seq(S) /\ Len(one \o history) = Len(one) + Len(history)
              /\ \A i \in 1 .. Len(one) + Len(history) :
                   (one \o history)[i] = IF i <= Len(one) THEN one[i] ELSE history[i - Len(one)]
          BY <4>1, ConcatProperties
        <4> QED
          BY <3>1, <4>2 DEF S
      <3>3. /\ DOMAIN (one \o history) = 1 .. 1 + Len(history) /\ Len(history) \in Nat
            /\ DOMAIN history = 1 .. Len(history)
        BY <2>1, <3>2, LenProperties
      <3>4. ASSUME NEW i \in 1 .. 1 + Len(history)
            PROVE  Whole((one \o history)[i])
        <4>1. CASE i = 1
          BY <1>1, <3>1, <3>2, <4>1
        <4>2. CASE i # 1
          <5>1. i - 1 \in DOMAIN history /\ (one \o history)[i] = history[i - 1]
            BY <3>2, <3>3, <4>2
          <5> QED
            BY <2>1, <5>1
        <4> QED
          BY <4>1, <4>2
      <3> QED
        BY <2>3, <3>2, <3>3, <3>4 DEF one
    <2> QED
      BY <1>2, <2>2, <2>3
  <1>4. Len(history') \in Nat
    BY <1>3, LenProperties
  <1>5. input' \in Seq(Bytes) /\ Whole(input') /\ Len(input') = 0
    BY <1>2, WholeTexts
  <1> QED
    BY <1>2, <1>3, <1>4, <1>5 DEF Inv, Texts, CursorInLine, TextIsWhole

(* Escape may clear the line.                                              *)
LEMMA EscapeSteps ==
  ASSUME Inv, Escape
  PROVE  Inv'
  <1>1. UNCHANGED <<past, editor>> /\ editor = "up"
    BY DEF Escape, Key
  <1>2. UNCHANGED line \/ (input' = <<>> /\ cursor' = 0)
    BY DEF Escape
  <1>3. CASE UNCHANGED line
    BY <1>1, <1>3, OtherSteps
  <1>4. CASE input' = <<>> /\ cursor' = 0
    <2>1. input' \in Seq(Bytes) /\ Whole(input') /\ cursor' \in 0 .. Len(input')
      BY <1>4, WholeTexts
    <2> QED
      BY <1>1, <2>1, LineSteps
  <1> QED
    BY <1>2, <1>3, <1>4

(* Every step keeps the invariant.                                         *)
LEMMA Steps ==
  ASSUME Inv, [Next]_vars
  PROVE  Inv'
  <1>1. ASSUME NEW c \in Characters, Type(c) PROVE Inv'
    BY <1>1, TypeSteps
  <1>2. CASE Move
    BY <1>2, MoveSteps
  <1>3. CASE Cuts
    <2>1. /\ 0 \in 0 .. Len(input) /\ cursor \in 0 .. Len(input) /\ Len(input) \in 0 .. Len(input)
          /\ WordLeft \in 0 .. Len(input) /\ WordRight \in 0 .. Len(input)
      BY Numbers, WordEnds
    <2> QED
      BY <1>3, <2>1, CutSteps DEF Cuts
  <1>4. CASE Delete
    <2>1. cursor \in Int /\ cursor - 1 \in Int
      BY Numbers
    <2> QED
      BY <1>4, <2>1, DeleteSteps DEF Delete
  <1>5. CASE Complete
    BY <1>5, CompleteSteps
  <1>6. CASE HistoryUp \/ HistoryDown
    BY <1>6, HistorySteps
  <1>7. CASE Enter
    BY <1>7, EnterSteps
  <1>8. CASE Escape
    BY <1>8, EscapeSteps
  <1>9. CASE Done \/ LeaveHelp \/ ControlC \/ Expire
    <2>1. UNCHANGED <<line, past>> /\ (editor' = editor \/ editor' # "dead")
      BY <1>9 DEF Done, LeaveHelp, ControlC, Expire
    <2> QED
      BY <2>1, OtherSteps
  <1>10. CASE UNCHANGED vars
    BY <1>10, OtherSteps DEF vars, line, past
  <1> QED
    BY <1>1, <1>2, <1>3, <1>4, <1>5, <1>6, <1>7, <1>8, <1>9, <1>10 DEF Next

(* The empty line.                                                         *)
LEMMA Starts ==
  ASSUME Init
  PROVE  Inv
  BY WholeTexts, EmptySeq DEF Init, Inv, Texts, CursorInLine, TextIsWhole

(* The inductive invariant.                                                *)
LEMMA Invariant == Spec => []Inv
  BY Starts, Steps, PTL DEF Spec

(* However long a user types, deletes, cuts, completes and goes through    *)
(* the history, the cursor stays in the line and the place in the history, *)
(* no edit ever leaves half a character behind, and the prompt dies only   *)
(* on a line with a wide character in it.                                  *)
THEOREM EditsAreSound == Spec => []LineIsSound
  <1>1. Inv => LineIsSound
    BY DEF Inv, LineIsSound
  <1> QED
    BY <1>1, Invariant, PTL

----------------------------------------------------------------------------
(* Sessions.                                                               *)

(* The inductive invariant: the two properties, whoever drives the App;    *)
(* and while lines are gathered no thread is about.                        *)
SGathered == multi \in Seq(Lines) /\ (multi # <<>> => thread.pc = "none")
STaken ==
  /\ busy \in BOOLEAN
  /\ busy <=> thread.pc # "none"
  /\ ~(home /\ busy)
  /\ thread.pc = "given" => ParseOf(thread.text, Arities).st = "ok"
SInv == SGathered /\ OpenWantsMore /\ STaken

(* A new process, and every one that has ended.                            *)
LEMMA SFresh ==
  ASSUME multi = <<>>, busy = FALSE, thread = Idle
  PROVE  SInv
  <1>1. thread.pc = "none"
    BY DEF Idle, Thread
  <1>2. multi \in Seq(Lines)
    OBVIOUS
  <1> QED
    BY <1>1, <1>2 DEF SInv, SGathered, STaken, OpenWantsMore

(* The end of the process leaves what a new one starts with.               *)
LEMMA SGoneSteps ==
  ASSUME Gone
  PROVE  SInv'
  <1>1. multi' = <<>> /\ busy' = FALSE /\ thread' = Idle
    BY DEF Gone
  <1>2. thread'.pc = "none"
    BY <1>1 DEF Idle, Thread
  <1>3. multi' \in Seq(Lines)
    BY <1>1
  <1> QED
    BY <1>1, <1>2, <1>3 DEF SInv, SGathered, STaken, OpenWantsMore

(* A step that leaves the buffer and what a text is checked against alone  *)
(* (a step of the evaluator may not: then there is no buffer) and the      *)
(* thread in agreement with busy keeps it.                                 *)
LEMMA SThreadSteps ==
  ASSUME SInv, UNCHANGED <<multi, busy, home>>,
         thread.pc # "none", thread'.pc \notin {"none", "given"}
  PROVE  SInv'
  <1>1. multi = <<>>
    BY DEF SInv, SGathered
  <1> QED
    BY <1>1 DEF SInv, SGathered, STaken, OpenWantsMore

(* The line that makes an error goes again, and what was gathered stays.   *)
LEMMA SFrontAppend ==
  ASSUME NEW s \in Seq(Lines), NEW x \in Lines
  PROVE  Append(s, x) \in Seq(Lines) /\ Front(Append(s, x)) = s
  <1> DEFINE t == Append(s, x)
  <1>1. /\ t \in Seq(Lines) /\ Len(t) = Len(s) + 1 /\ Len(s) \in Nat
        /\ \A i \in 1 .. Len(s) : t[i] = s[i]
    BY AppendProperties, LenProperties
  <1> HIDE DEF t
  <1>2. DOMAIN t = 1 .. Len(s) + 1 /\ \A i \in 1 .. Len(s) : t[i] \in Lines
    BY <1>1, LenProperties, ElementOfSeq
  <1>3. /\ SubSeq(t, 1, Len(s)) \in Seq(Lines)
        /\ Len(SubSeq(t, 1, Len(s))) = Len(s)
        /\ \A i \in 1 .. Len(s) : SubSeq(t, 1, Len(s))[i] = s[i]
    BY <1>1, <1>2, SubSeqProperties
  <1>4. SubSeq(t, 1, Len(s)) = s
    BY <1>1, <1>3, SeqEqual
  <1>5. Len(t) - 1 = Len(s)
    BY <1>1
  <1> QED
    BY <1>1, <1>4, <1>5 DEF Front, t

(* What a text is checked against stays as it is when the procedures and   *)
(* the evaluator's place do.                                               *)
LEMMA SArities ==
  ASSUME UNCHANGED procedures
  PROVE  Arities' = Arities
  BY DEF Arities

(* check_input goes by the same arities.                                   *)
LEMMA SChecked ==
  ASSUME UNCHANGED <<procedures, home>>, NEW text
  PROVE  (IF home' THEN Arities' ELSE <<>>) = (IF home THEN Arities ELSE <<>>)
  BY SArities

(* A line opens the buffer, goes on with it, is dropped, or is run.        *)
LEMMA SEnterSteps ==
  ASSUME SInv, NEW line0 \in Lines, EnterLine(line0)
  PROVE  SInv'
  <1> DEFINE lines == Append(multi, line0)
             text == Joined(lines)
             st == Checked(text)
  <1>1. /\ ~busy /\ thread.pc = "none" /\ multi \in Seq(Lines)
        /\ lines \in Seq(Lines) /\ Front(lines) = multi
    BY SFrontAppend DEF SInv, SGathered, STaken, EnterLine
  <1>2. \/ Gone
        \/ /\ UNCHANGED <<ui, stop, procedures, page, disk>>
           /\ \/ st = "ok" /\ multi' = <<>> /\ Execute(text)
              \/ st = "more" /\ multi' = lines /\ Same
              \/ st = "error" /\ AfterError(lines) /\ Same
    BY DEF EnterLine
  <1> HIDE DEF lines
  <1>3. CASE Gone
    BY <1>3, SGoneSteps
  <1>4. ASSUME UNCHANGED <<ui, stop, procedures, page, disk>>,
               st = "ok", multi' = <<>>, Execute(text)
        PROVE  SInv'
    <2>1. multi' \in Seq(Lines)
      BY <1>4
    <2>2. CASE home
      <3>1. ParseOf(text, Arities).st = "ok"
        BY <1>4, <2>2 DEF Checked
      <3>2. /\ busy' = TRUE /\ home' = FALSE
            /\ thread' = [pc |-> "given", text |-> text, nodes |-> <<>>]
        BY <1>4, <2>2 DEF Execute, Thread
      <3> HIDE DEF text
      <3>3. thread'.pc = "given" /\ thread'.text = text
        BY <3>2
      <3>4. ParseOf(thread'.text, Arities').st = "ok"
        BY <1>4, <3>1, <3>3, SArities
      <3> QED
        BY <1>4, <2>1, <3>2, <3>3, <3>4 DEF SInv, SGathered, STaken, OpenWantsMore
    <2>3. CASE ~home
      <3>1. UNCHANGED <<home, busy, thread>>
        BY <1>4, <2>3 DEF Execute, Same
      <3> QED
        BY <1>1, <1>4, <2>1, <3>1 DEF SInv, SGathered, STaken, OpenWantsMore
    <2> QED
      BY <2>2, <2>3
  <1>5. ASSUME UNCHANGED <<ui, stop, procedures, page, disk>>,
               st = "more", multi' = lines, Same
        PROVE  SInv'
    <2>1. UNCHANGED <<home, busy, thread>>
      BY <1>5 DEF Same
    <2>2. ParseOf(Joined(multi'), IF home' THEN Arities' ELSE <<>>).st = "more"
      BY <1>5, <2>1, SChecked DEF Checked
    <2>3. OpenWantsMore'
      BY <2>2 DEF OpenWantsMore, Checked
    <2> QED
      BY <1>1, <1>5, <2>1, <2>3 DEF SInv, SGathered, STaken
  <1>6. ASSUME UNCHANGED <<ui, stop, procedures, page, disk>>,
               AfterError(lines), Same
        PROVE  SInv'
    <2>1. UNCHANGED <<home, busy, thread>> /\ multi' = multi
      BY <1>1, <1>6 DEF Same, AfterError
    <2>2. OpenWantsMore'
      BY <1>6, <2>1, SChecked DEF OpenWantsMore, Checked, SInv
    <2> QED
      BY <1>1, <2>1, <2>2 DEF SInv, SGathered, STaken
  <1> QED
    BY <1>2, <1>3, <1>4, <1>5, <1>6

(* Escape drops the whole buffer or nothing of it.                         *)
LEMMA SEscapeSteps ==
  ASSUME SInv, RequestStop
  PROVE  SInv'
  <1>1. /\ UNCHANGED <<busy, home, thread, procedures>> /\ (multi' = multi \/ multi' = <<>>)
    BY DEF RequestStop
  <1>2. multi' \in Seq(Lines)
    <2>1. multi \in Seq(Lines) /\ <<>> \in Seq(Lines)
      BY DEF SInv, SGathered
    <2> QED
      BY <1>1, <2>1, Zenon
  <1>3. OpenWantsMore'
    BY <1>1, SChecked DEF OpenWantsMore, Checked, SInv
  <1>4. Arities' = Arities
    BY <1>1, SArities
  <1> QED
    BY <1>1, <1>2, <1>3, <1>4 DEF SInv, SGathered, STaken

(* tick frees the App of a thread that is over.                            *)
LEMMA STickSteps ==
  ASSUME SInv, Tick
  PROVE  SInv'
  <1>1. thread.pc \in {"sent", "dead"} /\ busy' = FALSE /\ thread' = Idle /\ multi' = multi
    BY DEF Tick
  <1>2. multi' = <<>> /\ thread'.pc = "none"
    BY <1>1 DEF SInv, SGathered, Idle, Thread
  <1>3. multi' \in Seq(Lines)
    BY <1>2
  <1> QED
    BY <1>1, <1>2, <1>3 DEF SInv, SGathered, STaken, OpenWantsMore

(* The thread runs until it ends: each step of it leaves it there.         *)
LEMMA SEvaluateSteps ==
  ASSUME SInv, Evaluate
  PROVE  SInv'
  <1> USE DEF Ends, Runs, Go, Thread, Turn, Calls, Running
  <1>1. UNCHANGED <<multi, busy, home>>
    BY DEF Evaluate, Begin, Stopped, Finish, Define, Other, Forever,
           NamePage, Erase, Save, Load, Loaded
  <1>2. thread.pc \in {"given", "run"}
    BY DEF Evaluate, Begin, Stopped, Finish, Define, Other, Forever,
           NamePage, Erase, Save, Load, Loaded
  <1>3. thread'.pc \notin {"none", "given"}
    <2>1. CASE Begin
      BY <2>1 DEF Begin
    <2>2. CASE Stopped \/ Finish \/ Define
      BY <2>2 DEF Stopped, Finish, Define
    <2>3. CASE Other
      BY <2>3 DEF Other
    <2>4. CASE Forever
      <3>1. thread' = thread \/ thread'.pc = "sent"
        BY <2>4 DEF Forever
      <3> QED
        BY <2>4, <3>1 DEF Forever
    <2>5. CASE NamePage \/ Erase \/ Save \/ Loaded
      <3>1. Go \/ Ends
        BY <2>5, Zenon DEF NamePage, Erase, Save, Loaded
      <3> QED
        BY <3>1
    <2>6. CASE Load
      <3> DEFINE name == Node1.parts[1].v
                 program == ParseOf(disk[name], Arities)
      <3>1. \/ Ends \/ (\E n : Runs(n)) \/ thread' = Thread("dead", <<>>, <<>>)
        BY <2>6, Zenon DEF Load
      <3> QED
        BY <3>1
    <2> QED
      BY <2>1, <2>2, <2>3, <2>4, <2>5, <2>6 DEF Evaluate
  <1> QED
    BY <1>1, <1>2, <1>3, SThreadSteps

(* Every step keeps the invariant.                                         *)
LEMMA SSteps ==
  ASSUME SInv, [SessionNext]_sessionVars
  PROVE  SInv'
  <1>1. ASSUME NEW line0 \in Lines, EnterLine(line0) PROVE SInv'
    BY <1>1, SEnterSteps
  <1>2. CASE RequestStop
    BY <1>2, SEscapeSteps
  <1>3. CASE Tick
    BY <1>3, STickSteps
  <1>4. CASE Quit
    BY <1>4, SGoneSteps DEF Quit
  <1>5. CASE Evaluate
    BY <1>5, SEvaluateSteps
  <1>6. CASE UNCHANGED <<multi, busy, home, thread, stop, procedures, page, disk>>
    <2>1. OpenWantsMore'
      BY <1>6, SChecked DEF OpenWantsMore, Checked, SInv
    <2> QED
      BY <1>6, <2>1, SArities DEF SInv, SGathered, STaken
  <1> QED
    BY <1>1, <1>2, <1>3, <1>4, <1>5, <1>6 DEF SessionNext, Restart, sessionVars

(* The inductive invariant of a session.                                   *)
LEMMA SInvariant == SessionSpec => []SInv
  <1>1. SessionInit => SInv
    BY SFresh DEF SessionInit
  <1> QED
    BY <1>1, SSteps, PTL DEF SessionSpec

(* Whatever lines are typed, in whatever order they define, erase, load,   *)
(* fail, panic or are stopped, and whatever the grammar is: the lines the  *)
(* prompt has gathered are always a text check_input calls incomplete with *)
(* the procedures that are defined now.                                    *)
THEOREM OpenBufferWantsMore == SessionSpec => []OpenWantsMore
  BY SInvariant, PTL DEF SInv

(* And the App is busy exactly while there is a thread, which has the one  *)
(* evaluator, and which finds the text the App found complete complete.    *)
THEOREM TakenTextsAreRun == SessionSpec => []TakenIsRun
  <1>1. SInv => TakenIsRun
    BY DEF SInv, STaken, TakenIsRun
  <1> QED
    BY <1>1, SInvariant, PTL
=============================================================================
