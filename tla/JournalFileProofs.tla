-------------------------- MODULE JournalFileProofs --------------------------
(***************************************************************************)
(* Proofs about the bytes of a run's journal, for any processes, lengths   *)
(* of line and bounds.                                                     *)
(*                                                                         *)
(* The lines that are followed by another are whole, each with the event   *)
(* its place demands; the last may be cut short, or be two lines joined,   *)
(* and nothing follows a piece but the rest of its line and a line begun.  *)
(* A process that appends found all lines readable before it wrote, and    *)
(* finds them so again only if it began a line of its own.                 *)
(***************************************************************************)
EXTENDS JournalFile, FiniteSetTheorems, SequenceTheorems, WellFoundedInduction, TLAPS

\* The first pieces of an event's line are there, from one piece on.
Holds(bytes, start, e, pieces) ==
  /\ start + pieces - 1 <= Len(bytes)
  /\ \A n \in 1 .. pieces : bytes[start + n - 1] = [event |-> e, part |-> n]

Demanded(bytes, start, e) == e.sequence = LineNumber(bytes, start) - 1

Whole(bytes, start) ==
  \E e \in Events : Demanded(bytes, start, e) /\ Holds(bytes, start, e, Separator)

\* A line can be read if the file were to end there.
ReadsTo(bytes, start, end) ==
  \E e \in Events :
    /\ Demanded(bytes, start, e)
    /\ \/ Holds(bytes, start, e, Separator) /\ start + Size <= end
       \/ Holds(bytes, start, e, Size) /\ start + Size - 1 = end

EndsLine(bytes, end) == end = 0 \/ bytes[end].part = Separator

\* Where the file ended when a process began to append.
Base(w) == Len(file) - written[w]

HoldsLock == \A w \in Writers : pc[w] # "idle" <=> lock = w

Appends(w) ==
  /\ event[w] \in Events
  /\ IF pc[w] = "write" THEN written[w] \in 0 .. Size ELSE written[w] = Separator
  /\ written[w] <= Len(file)
  /\ \A n \in 1 .. written[w] : file[Base(w) + n] = [event |-> event[w], part |-> n]
  /\ Cardinality({s \in LineStarts(file) : s <= Base(w)}) = event[w].sequence
  /\ \A s \in LineStarts(file) : s <= Base(w) => ReadsTo(file, s, Base(w))
  /\ failures + losses = 0 => EndsLine(file, Base(w))
  /\ pc[w] \in {"name", "project"} => durable = Len(file)
  /\ pc[w] = "project" => named

AppendersKnow == \A w \in Writers : pc[w] # "idle" => Appends(w)

OnlyTheLastIsDamaged == \A s, t \in LineStarts(file) : s < t => Whole(file, s)

NothingBehindATornLine == \A n \in 1 .. Len(file) - 1 : Follows(file[n], file[n + 1])

NothingUnasked == ~requested => file = <<>> /\ lock = None

Undisturbed ==
  failures + losses = 0 =>
    /\ lock = None => EndsLine(file, Len(file))
    /\ (\A w \in Writers : pc[w] # "write") =>
          \A s \in LineStarts(file) : ReadsTo(file, s, Len(file))

AcknowledgedIsDurable ==
  /\ acknowledged # {} => named
  /\ \A e \in acknowledged : \E s \in LineStarts(file) :
       /\ Demanded(file, s, e) /\ Holds(file, s, e, Separator)
       /\ s + Size <= durable

Inv ==
  /\ TypeOK
  /\ HoldsLock
  /\ AppendersKnow
  /\ OnlyTheLastIsDamaged
  /\ NothingBehindATornLine
  /\ NothingUnasked
  /\ Undisturbed
  /\ AcknowledgedIsDurable

----------------------------------------------------------------------------
(* Lemmas about numbers, pieces and lines *)

LEMMA Numbers ==
  /\ Size \in Nat \ {0} /\ MaxEvents \in Nat \ {0}
  /\ MaxFailures \in Nat /\ MaxLosses \in Nat
  /\ Separator \in Nat /\ Separator = Size + 1
  BY FileBounds DEF Separator

LEMMA LeastExists ==
  ASSUME NEW T \in SUBSET Nat, T # {}
  PROVE  \E n \in T : \A m \in T : n <= m
  <1>1. \E n \in T : \A m \in T : ~(<<m, n>> \in OpToRel(<, Nat))
    BY NatLessThanWellFounded, WFMin
  <1>2. PICK n \in T : \A m \in T : ~(<<m, n>> \in OpToRel(<, Nat))
    BY <1>1
  <1>3. ASSUME NEW m \in T PROVE n <= m
    <2>1. m \in Nat /\ n \in Nat
      OBVIOUS
    <2>2. ~(m < n)
      BY <1>2, <2>1 DEF OpToRel
    <2> QED BY <2>1, <2>2
  <1> QED BY <1>3

LEMMA GreatestExists ==
  ASSUME NEW b \in Nat, NEW T \in SUBSET (1 .. b), T # {}
  PROVE  \E n \in T : \A m \in T : m <= n
  <1> DEFINE D == {b - t : t \in T}
  <1>1. D \in SUBSET Nat /\ D # {}
    <2>1. \A t \in T : b - t \in Nat
      OBVIOUS
    <2>2. PICK t \in T : TRUE
      OBVIOUS
    <2>3. b - t \in D
      OBVIOUS
    <2> QED BY <2>1, <2>3
  <1>2. PICK d \in D : \A m \in D : d <= m
    BY <1>1, LeastExists
  <1>3. PICK n \in T : d = b - n
    OBVIOUS
  <1>4. ASSUME NEW m \in T PROVE m <= n
    <2>1. b - m \in D
      OBVIOUS
    <2>2. d <= b - m
      BY <1>2, <2>1
    <2> QED BY <1>3, <2>2
  <1> QED BY <1>4

LEMMA LineOfIs ==
  ASSUME NEW e \in Events
  PROVE  /\ LineOf(e) \in Seq(Pieces) /\ Len(LineOf(e)) = Separator
         /\ \A n \in 1 .. Separator : LineOf(e)[n] = [event |-> e, part |-> n]
  <1>1. \A n \in 1 .. Separator : [event |-> e, part |-> n] \in Pieces
    BY DEF Pieces
  <1>2. LineOf(e) \in [1 .. Separator -> Pieces]
    BY <1>1 DEF LineOf
  <1>3. LineOf(e) \in Seq(Pieces)
    BY <1>2, SeqDef, Numbers
  <1>4. Len(LineOf(e)) \in Nat /\ DOMAIN LineOf(e) = 1 .. Len(LineOf(e))
    BY <1>3, LenProperties
  <1>5. 1 .. Separator = 1 .. Len(LineOf(e))
    BY <1>2, <1>4
  <1>6. Len(LineOf(e)) = Separator
    <2>1. Separator \in 1 .. Separator
      BY Numbers
    <2>2. Len(LineOf(e)) # 0
      BY <1>5, <2>1
    <2>3. Len(LineOf(e)) \in 1 .. Len(LineOf(e))
      BY <1>4, <2>2
    <2>4. Separator \in 1 .. Len(LineOf(e)) /\ Len(LineOf(e)) \in 1 .. Separator
      BY <1>5, <2>1, <2>3
    <2>5. PICK l \in Nat : l = Len(LineOf(e))
      BY <1>4
    <2>6. Separator \in Nat /\ Separator \in 1 .. l /\ l \in 1 .. Separator
      BY <2>4, <2>5, Numbers
    <2>7. l = Separator
      BY <2>6
    <2> QED BY <2>5, <2>7
  <1> QED BY <1>3, <1>6 DEF LineOf

LEMMA PieceIs ==
  ASSUME NEW bytes \in Seq(Pieces), NEW n \in 1 .. Len(bytes)
  PROVE  /\ bytes[n].part \in 1 .. Separator
         /\ bytes[n].event \in Events
  <1>1. bytes[n] \in Pieces
    BY ElementOfSeq
  <1> QED BY <1>1 DEF Pieces

LEMMA StartsAre ==
  ASSUME NEW bytes \in Seq(Pieces)
  PROVE  /\ Len(bytes) \in Nat
         /\ IsFiniteSet(LineStarts(bytes)) /\ LineStarts(bytes) \subseteq 1 .. Len(bytes)
         /\ Cardinality(LineStarts(bytes)) \in Nat
         /\ \A s : LineNumber(bytes, s) \in Nat \ {0}
  <1>1. Len(bytes) \in Nat
    BY LenProperties
  <1>2. LineStarts(bytes) \subseteq 1 .. Len(bytes)
    BY DEF LineStarts
  <1>3. IsFiniteSet(1 .. Len(bytes))
    BY <1>1, FS_Interval
  <1>4. IsFiniteSet(LineStarts(bytes))
    BY <1>2, <1>3, FS_Subset
  <1>5. ASSUME NEW s PROVE LineNumber(bytes, s) \in Nat \ {0}
    <2>1. IsFiniteSet({n \in LineStarts(bytes) : n < s})
      BY <1>4, FS_Subset
    <2>2. Cardinality({n \in LineStarts(bytes) : n < s}) \in Nat
      BY <2>1, FS_CardinalityType
    <2> QED BY <2>2 DEF LineNumber
  <1>6. Cardinality(LineStarts(bytes)) \in Nat
    BY <1>4, FS_CardinalityType
  <1> QED BY <1>1, <1>2, <1>4, <1>5, <1>6

\* Where lines start, which they are and what they hold is told by the pieces
\* before and in them.
LEMMA StartsAgree ==
  ASSUME NEW a \in Seq(Pieces), NEW b \in Seq(Pieces), NEW n \in Nat,
         n <= Len(a), n <= Len(b), \A i \in 1 .. n : a[i] = b[i]
  PROVE  /\ \A s \in 1 .. n : s \in LineStarts(a) <=> s \in LineStarts(b)
         /\ \A s \in 1 .. n + 1 :
              /\ {x \in LineStarts(a) : x < s} = {x \in LineStarts(b) : x < s}
              /\ LineNumber(a, s) = LineNumber(b, s)
         /\ {x \in LineStarts(a) : x <= n} = {x \in LineStarts(b) : x <= n}
         /\ \A s \in 1 .. n : \A e : \A k \in Nat :
              s + k - 1 <= n /\ Holds(a, s, e, k) => Holds(b, s, e, k)
         /\ \A s \in 1 .. n + 1 : \A e : Demanded(a, s, e) <=> Demanded(b, s, e)
  <1>1. Len(a) \in Nat /\ Len(b) \in Nat
    BY LenProperties
  <1>2. \A s \in 1 .. n : s \in LineStarts(a) <=> s \in LineStarts(b)
    <2> SUFFICES ASSUME NEW s \in 1 .. n PROVE s \in LineStarts(a) <=> s \in LineStarts(b)
      OBVIOUS
    <2>1. s \in 1 .. Len(a) /\ s \in 1 .. Len(b)
      BY <1>1
    <2>2. s # 1 => a[s - 1] = b[s - 1]
      OBVIOUS
    <2> QED BY <2>1, <2>2 DEF LineStarts
  <1>3. LineStarts(a) \subseteq Nat /\ LineStarts(b) \subseteq Nat
        /\ 0 \notin LineStarts(a) /\ 0 \notin LineStarts(b)
    BY <1>1 DEF LineStarts
  <1>4. ASSUME NEW s \in 1 .. n + 1
        PROVE  {x \in LineStarts(a) : x < s} = {x \in LineStarts(b) : x < s}
    <2>1. \A x \in Nat \ {0} : x < s => x \in 1 .. n
      OBVIOUS
    <2> QED BY <1>2, <1>3, <2>1
  <1>5. \A s \in 1 .. n + 1 : LineNumber(a, s) = LineNumber(b, s)
    BY <1>4 DEF LineNumber
  <1>6. {x \in LineStarts(a) : x <= n} = {x \in LineStarts(b) : x <= n}
    <2>1. \A x \in Nat \ {0} : x <= n => x \in 1 .. n
      OBVIOUS
    <2> QED BY <1>2, <1>3, <2>1
  <1>7. ASSUME NEW s \in 1 .. n, NEW e, NEW k \in Nat, s + k - 1 <= n, Holds(a, s, e, k)
        PROVE  Holds(b, s, e, k)
    <2>1. \A i \in 1 .. k : s + i - 1 \in 1 .. n
      BY <1>7
    <2>2. s + k - 1 <= Len(b)
      BY <1>1, <1>7
    <2> QED BY <1>7, <2>1, <2>2 DEF Holds
  <1> QED BY <1>2, <1>4, <1>5, <1>6, <1>7 DEF Demanded

\* No line starts inside a line.
LEMMA NoStartInside ==
  ASSUME NEW bytes \in Seq(Pieces), NEW s \in LineStarts(bytes), NEW e,
         NEW k \in {Size, Separator}, Holds(bytes, s, e, k),
         NEW t \in LineStarts(bytes), s < t
  PROVE  s + Size < t
  <1>1. s \in 1 .. Len(bytes) /\ t \in 1 .. Len(bytes) /\ Len(bytes) \in Nat
    BY StartsAre
  <1>2. t # 1 /\ bytes[t - 1].part = Separator
    BY <1>1 DEF LineStarts
  <1>3. ASSUME t <= s + Size PROVE FALSE
    <2>1. t - s \in 1 .. Size /\ t - s \in 1 .. k
      BY <1>1, <1>3, Numbers
    <2>2. bytes[s + (t - s) - 1] = [event |-> e, part |-> t - s]
      BY <2>1 DEF Holds
    <2>3. bytes[t - 1].part = t - s
      <3>1. s + (t - s) - 1 = t - 1
        BY <1>1
      <3> QED BY <2>2, <3>1
    <2>4. t - s # Separator
      BY <1>1, <2>1, Numbers
    <2> QED BY <1>2, <2>3, <2>4
  <1> QED BY <1>1, <1>3, Numbers

\* The line that is read from a start is what runs to the next separator, or to
\* the end of the file.
LEMMA LineFromIs ==
  ASSUME NEW bytes \in Seq(Pieces), NEW s \in LineStarts(bytes)
  PROVE  \E last \in s .. Len(bytes) :
           /\ LineFrom(bytes, s) = SubSeq(bytes, s, last)
           /\ bytes[last].part = Separator \/ last = Len(bytes)
           /\ \A n \in s .. Len(bytes) : bytes[n].part = Separator => last <= n
  <1> DEFINE ends == {n \in s .. Len(bytes) : bytes[n].part = Separator}
             Last(n) == IF ends = {} THEN n = Len(bytes)
                        ELSE n \in ends /\ \A m \in ends : n <= m
             last == CHOOSE n \in s .. Len(bytes) : Last(n)
  <1>1. s \in 1 .. Len(bytes) /\ Len(bytes) \in Nat
    BY StartsAre
  <1>2. \E n \in s .. Len(bytes) : Last(n)
    <2>1. CASE ends = {}
      BY <1>1, <2>1
    <2>2. CASE ends # {}
      <3>1. ends \in SUBSET Nat
        BY <1>1
      <3> HIDE DEF ends
      <3>2. PICK n \in ends : \A m \in ends : n <= m
        BY <2>2, <3>1, LeastExists
      <3> QED BY <2>2, <3>2 DEF ends
    <2> QED BY <2>1, <2>2
  <1>3. last \in s .. Len(bytes) /\ Last(last)
    <2> HIDE DEF Last
    <2> QED BY <1>2
  <1>4. LineFrom(bytes, s) = SubSeq(bytes, s, last)
    BY DEF LineFrom
  <1>5. bytes[last].part = Separator \/ last = Len(bytes)
    <2> HIDE DEF last
    <2> QED BY <1>3
  <1>6. \A n \in s .. Len(bytes) : bytes[n].part = Separator => last <= n
    <2> HIDE DEF last
    <2>1. ASSUME NEW n \in s .. Len(bytes), bytes[n].part = Separator PROVE last <= n
      <3>1. n \in ends
        BY <2>1
      <3> QED BY <1>3, <3>1
    <2> QED BY <2>1
  <1> QED BY <1>3, <1>4, <1>5, <1>6

\* The first pieces of a line, read as far as they go.
LEMMA PiecesAre ==
  ASSUME NEW bytes \in Seq(Pieces), NEW s \in 1 .. Len(bytes), NEW e \in Events,
         NEW k \in 1 .. Separator, Holds(bytes, s, e, k)
  PROVE  SubSeq(bytes, s, s + k - 1) = SubSeq(LineOf(e), 1, k)
  <1>1. /\ Len(bytes) \in Nat /\ s + k - 1 <= Len(bytes) /\ Separator \in Nat
    BY LenProperties, Numbers DEF Holds
  <1>2. \A i \in s .. s + k - 1 : bytes[i] \in Pieces
    BY <1>1, ElementOfSeq
  <1>3. \A i \in 1 .. k : LineOf(e)[i] \in Pieces
    BY <1>1, LineOfIs, ElementOfSeq
  <1> DEFINE a == SubSeq(bytes, s, s + k - 1)
             b == SubSeq(LineOf(e), 1, k)
  <1>4. /\ a \in Seq(Pieces) /\ Len(a) = k
        /\ \A i \in 1 .. k : a[i] = bytes[s + i - 1]
    BY <1>1, <1>2, SubSeqProperties
  <1>5. /\ b \in Seq(Pieces) /\ Len(b) = k
        /\ \A i \in 1 .. k : b[i] = LineOf(e)[i]
    BY <1>1, <1>3, SubSeqProperties
  <1>6. \A i \in 1 .. k : a[i] = b[i]
    <2> HIDE DEF a, b
    <2>1. \A i \in 1 .. k : bytes[s + i - 1] = [event |-> e, part |-> i]
      BY DEF Holds
    <2>2. \A i \in 1 .. k : LineOf(e)[i] = [event |-> e, part |-> i]
      BY <1>1, LineOfIs
    <2> QED BY <1>4, <1>5, <2>1, <2>2
  <1> HIDE DEF a, b
  <1>7. a = b
    BY <1>4, <1>5, <1>6, SeqEqual
  <1> QED BY <1>7 DEF a, b

LEMMA WholeLineIs ==
  ASSUME NEW bytes \in Seq(Pieces), NEW s \in LineStarts(bytes), NEW e \in Events,
         Holds(bytes, s, e, Separator)
  PROVE  LineFrom(bytes, s) = LineOf(e)
  <1>1. s \in 1 .. Len(bytes) /\ Len(bytes) \in Nat
    BY StartsAre
  <1>2. PICK last \in s .. Len(bytes) :
           /\ LineFrom(bytes, s) = SubSeq(bytes, s, last)
           /\ bytes[last].part = Separator \/ last = Len(bytes)
           /\ \A n \in s .. Len(bytes) : bytes[n].part = Separator => last <= n
    BY LineFromIs
  <1>3. s + Size <= Len(bytes) /\ bytes[s + Size].part = Separator
    <2>1. Separator \in 1 .. Separator /\ s + Separator - 1 = s + Size
      BY <1>1, Numbers
    <2>2. /\ s + Separator - 1 <= Len(bytes)
          /\ bytes[s + Separator - 1] = [event |-> e, part |-> Separator]
      BY <2>1 DEF Holds
    <2>3. bytes[s + Size] = [event |-> e, part |-> Separator] /\ s + Size <= Len(bytes)
      BY <2>1, <2>2
    <2> QED BY <2>3
  <1>4. last <= s + Size
    BY <1>1, <1>2, <1>3, Numbers
  <1>5. last = s + Size
    <2> SUFFICES ASSUME last < s + Size PROVE FALSE
      BY <1>1, <1>4, Numbers
    <2>1. last - s + 1 \in 1 .. Size /\ last - s + 1 \in 1 .. Separator
      BY <1>1, Numbers
    <2>2. bytes[s + (last - s + 1) - 1] = [event |-> e, part |-> last - s + 1]
      BY <2>1 DEF Holds
    <2>3. s + (last - s + 1) - 1 = last
      BY <1>1
    <2>4. bytes[last].part = last - s + 1 /\ last - s + 1 # Separator
      BY <1>1, <2>1, <2>2, <2>3, Numbers
    <2> QED BY <1>1, <1>2, <1>3, <2>4, Numbers
  <1>6. Separator \in 1 .. Separator /\ s + Separator - 1 = last
    BY <1>1, <1>5, Numbers
  <1>7. SubSeq(bytes, s, last) = SubSeq(LineOf(e), 1, Separator)
    BY <1>1, <1>6, PiecesAre
  <1>8. SubSeq(LineOf(e), 1, Separator) = LineOf(e)
    BY LineOfIs, SubSeqFull
  <1> QED BY <1>2, <1>7, <1>8

LEMMA CutLineIs ==
  ASSUME NEW bytes \in Seq(Pieces), NEW s \in LineStarts(bytes), NEW e \in Events,
         Holds(bytes, s, e, Size), s + Size - 1 = Len(bytes)
  PROVE  LineFrom(bytes, s) = SubSeq(LineOf(e), 1, Size)
  <1>1. s \in 1 .. Len(bytes) /\ Len(bytes) \in Nat
    BY StartsAre
  <1>2. PICK last \in s .. Len(bytes) :
           /\ LineFrom(bytes, s) = SubSeq(bytes, s, last)
           /\ bytes[last].part = Separator \/ last = Len(bytes)
    BY LineFromIs
  <1>3. last = s + Size - 1
    <2>1. last - s + 1 \in 1 .. Size
      BY <1>1, Numbers
    <2>2. bytes[s + (last - s + 1) - 1] = [event |-> e, part |-> last - s + 1]
      BY <2>1 DEF Holds
    <2>3. s + (last - s + 1) - 1 = last
      BY <1>1
    <2>4. bytes[last].part = last - s + 1 /\ last - s + 1 # Separator
      BY <1>1, <2>1, <2>2, <2>3, Numbers
    <2> QED BY <1>2, <2>4
  <1>4. Size \in 1 .. Separator
    BY Numbers
  <1> QED BY <1>1, <1>2, <1>3, <1>4, PiecesAre

\* What the pieces of a line are, if it reads as an event's.
LEMMA ReadPiecesAre ==
  ASSUME NEW bytes \in Seq(Pieces), NEW s \in LineStarts(bytes), NEW e \in Events,
         NEW k \in 1 .. Separator, NEW last \in s .. Len(bytes),
         SubSeq(bytes, s, last) = SubSeq(LineOf(e), 1, k)
  PROVE  last = s + k - 1 /\ Holds(bytes, s, e, k)
  <1>1. s \in 1 .. Len(bytes) /\ Len(bytes) \in Nat /\ Separator \in Nat
    BY StartsAre, Numbers
  <1>2. \A i \in s .. last : bytes[i] \in Pieces
    BY <1>1, ElementOfSeq
  <1>3. \A i \in 1 .. k : LineOf(e)[i] \in Pieces
    BY <1>1, LineOfIs, ElementOfSeq
  <1> DEFINE a == SubSeq(bytes, s, last)
             b == SubSeq(LineOf(e), 1, k)
  <1>4. /\ Len(a) = last - s + 1
        /\ \A i \in 1 .. last - s + 1 : a[i] = bytes[s + i - 1]
    BY <1>1, <1>2, SubSeqProperties
  <1>5. /\ Len(b) = k
        /\ \A i \in 1 .. k : b[i] = LineOf(e)[i]
    BY <1>1, <1>3, SubSeqProperties
  <1>6. a = b
    OBVIOUS
  <1> HIDE DEF a, b
  <1>7. last = s + k - 1
    BY <1>1, <1>4, <1>5, <1>6
  <1>8. \A i \in 1 .. k : bytes[s + i - 1] = [event |-> e, part |-> i]
    <2>1. \A i \in 1 .. k : LineOf(e)[i] = [event |-> e, part |-> i]
      <3>1. \A i \in 1 .. k : i \in 1 .. Separator
        BY <1>1
      <3> QED BY <3>1, LineOfIs
    <2>2. last - s + 1 = k
      BY <1>1, <1>7
    <2> QED BY <1>4, <1>5, <1>6, <2>1, <2>2
  <1> QED BY <1>1, <1>7, <1>8 DEF Holds

LEMMA ReadingIs ==
  ASSUME NEW bytes \in Seq(Pieces), NEW s \in LineStarts(bytes)
  PROVE  LineReads(bytes, s) <=> ReadsTo(bytes, s, Len(bytes))
  <1>1. s \in 1 .. Len(bytes) /\ Len(bytes) \in Nat
    BY StartsAre
  <1>2. ASSUME ReadsTo(bytes, s, Len(bytes)) PROVE LineReads(bytes, s)
    <2>1. PICK e \in Events :
            /\ Demanded(bytes, s, e)
            /\ \/ Holds(bytes, s, e, Separator)
               \/ Holds(bytes, s, e, Size) /\ s + Size - 1 = Len(bytes)
      BY <1>2 DEF ReadsTo
    <2>2. IsLineOf(LineFrom(bytes, s), e)
      BY <2>1, WholeLineIs, CutLineIs DEF IsLineOf
    <2> QED BY <2>1, <2>2 DEF LineReads, Demanded
  <1>3. ASSUME LineReads(bytes, s) PROVE ReadsTo(bytes, s, Len(bytes))
    <2>1. PICK e \in Events : Demanded(bytes, s, e) /\ IsLineOf(LineFrom(bytes, s), e)
      BY <1>3 DEF LineReads, Demanded
    <2>2. PICK last \in s .. Len(bytes) :
           /\ LineFrom(bytes, s) = SubSeq(bytes, s, last)
           /\ bytes[last].part = Separator \/ last = Len(bytes)
      BY LineFromIs
    <2>3. CASE LineFrom(bytes, s) = LineOf(e)
      <3>1. SubSeq(LineOf(e), 1, Separator) = LineOf(e)
        BY LineOfIs, SubSeqFull
      <3>2. Separator \in 1 .. Separator /\ s + Separator - 1 = s + Size
        BY <1>1, Numbers
      <3>3. last = s + Separator - 1 /\ Holds(bytes, s, e, Separator)
        BY <2>2, <2>3, <3>1, <3>2, ReadPiecesAre
      <3> QED BY <2>1, <3>2, <3>3 DEF ReadsTo
    <2>4. CASE LineFrom(bytes, s) = SubSeq(LineOf(e), 1, Size)
      <3>1. Size \in 1 .. Separator /\ Size \in 1 .. Size
        BY Numbers
      <3>2. last = s + Size - 1 /\ Holds(bytes, s, e, Size)
        BY <2>2, <2>4, <3>1, ReadPiecesAre
      <3>3. bytes[last] = [event |-> e, part |-> Size]
        BY <3>1, <3>2 DEF Holds
      <3>4. last = Len(bytes)
        BY <2>2, <3>3, Numbers
      <3> QED BY <2>1, <3>2, <3>4 DEF ReadsTo
    <2> QED BY <2>1, <2>3, <2>4 DEF IsLineOf
  <1> QED BY <1>2, <1>3

\* A line that could be read if the file ended at a place can be if another
\* file that agrees up to there does.
LEMMA ReadsAgree ==
  ASSUME NEW a \in Seq(Pieces), NEW b \in Seq(Pieces), NEW n \in Nat,
         n <= Len(a), n <= Len(b), \A i \in 1 .. n : a[i] = b[i],
         NEW s \in 1 .. n, ReadsTo(a, s, n)
  PROVE  ReadsTo(b, s, n)
  <1>1. PICK e \in Events :
          /\ Demanded(a, s, e)
          /\ \/ Holds(a, s, e, Separator) /\ s + Size <= n
             \/ Holds(a, s, e, Size) /\ s + Size - 1 = n
    BY DEF ReadsTo
  <1>2. Demanded(b, s, e)
    BY <1>1, StartsAgree
  <1>3. Separator \in Nat /\ Size \in Nat /\ s + Separator - 1 = s + Size
    BY Numbers
  <1>4. CASE Holds(a, s, e, Separator) /\ s + Size <= n
    BY <1>2, <1>3, <1>4, StartsAgree DEF ReadsTo
  <1>5. CASE Holds(a, s, e, Size) /\ s + Size - 1 = n
    BY <1>2, <1>3, <1>5, StartsAgree DEF ReadsTo
  <1> QED BY <1>1, <1>4, <1>5

\* Where pieces of a line follow to the end, at most one line starts, and with
\* the first of them.
Follow(bytes, b, e, k) ==
  /\ Len(bytes) = b + k
  /\ \A n \in 1 .. k : bytes[b + n] = [event |-> e, part |-> n]

LEMMA StartsAfter ==
  ASSUME NEW bytes \in Seq(Pieces), NEW b \in Nat, NEW k \in 1 .. Separator, NEW e,
         Follow(bytes, b, e, k)
  PROVE  /\ \A t \in LineStarts(bytes) : b < t => t = b + 1 /\ EndsLine(bytes, b)
         /\ EndsLine(bytes, b) => b + 1 \in LineStarts(bytes)
         /\ k = Separator => Holds(bytes, b + 1, e, Separator) /\ b + 1 + Size = Len(bytes)
  <1> USE DEF Follow
  <1>1. ASSUME NEW t \in LineStarts(bytes), b < t PROVE t = b + 1 /\ EndsLine(bytes, b)
    <2>1. t \in 1 .. Len(bytes) /\ (t = 1 \/ bytes[t - 1].part = Separator)
      BY DEF LineStarts
    <2>2. CASE t - 1 > b
      <3>1. t - 1 - b \in 1 .. k /\ t - 1 - b < k /\ b + (t - 1 - b) = t - 1
        BY <2>1, <2>2, Numbers
      <3>2. bytes[t - 1].part = t - 1 - b
        <4>1. bytes[b + (t - 1 - b)] = [event |-> e, part |-> t - 1 - b]
          BY <3>1
        <4>2. bytes[t - 1] = [event |-> e, part |-> t - 1 - b]
          BY <3>1, <4>1
        <4> QED BY <4>2
      <3>3. t - 1 - b # Separator /\ t # 1
        BY <2>1, <2>2, <3>1, Numbers
      <3> QED BY <2>1, <3>2, <3>3
    <2>3. CASE t - 1 = b
      BY <2>1, <2>3 DEF EndsLine
    <2> QED BY <1>1, <2>1, <2>2, <2>3, Numbers
  <1>2. ASSUME EndsLine(bytes, b) PROVE b + 1 \in LineStarts(bytes)
    <2>1. b + 1 \in 1 .. Len(bytes) /\ (b + 1) - 1 = b
      BY Numbers
    <2> QED BY <1>2, <2>1 DEF EndsLine, LineStarts
  <1>3. ASSUME k = Separator
        PROVE  Holds(bytes, b + 1, e, Separator) /\ b + 1 + Size = Len(bytes)
    <2>1. \A n \in 1 .. Separator : b + 1 + n - 1 = b + n
      BY Numbers
    <2>2. b + 1 + Separator - 1 = Len(bytes) /\ b + 1 + Size = Len(bytes)
      BY <1>3, Numbers
    <2>3. \A n \in 1 .. Separator : bytes[b + 1 + n - 1] = [event |-> e, part |-> n]
      BY <1>3, <2>1
    <2>4. b + 1 + Separator - 1 <= Len(bytes)
      BY <2>2, LenProperties
    <2> QED BY <2>2, <2>3, <2>4 DEF Holds
  <1> QED BY <1>1, <1>2, <1>3

\* A line that could be read if the file ended with a separator is whole.
LEMMA ReadsWhole ==
  ASSUME NEW bytes \in Seq(Pieces), NEW n \in Nat, n <= Len(bytes), NEW s \in 1 .. n,
         ReadsTo(bytes, s, n), EndsLine(bytes, n)
  PROVE  \E e \in Events : /\ Demanded(bytes, s, e) /\ Holds(bytes, s, e, Separator)
                           /\ s + Size <= n
  <1>1. PICK e \in Events :
          /\ Demanded(bytes, s, e)
          /\ \/ Holds(bytes, s, e, Separator) /\ s + Size <= n
             \/ Holds(bytes, s, e, Size) /\ s + Size - 1 = n
    BY DEF ReadsTo
  <1>2. ASSUME Holds(bytes, s, e, Size), s + Size - 1 = n PROVE FALSE
    <2>1. Size \in 1 .. Size
      BY Numbers
    <2>2. bytes[s + Size - 1] = [event |-> e, part |-> Size]
      BY <1>2, <2>1 DEF Holds
    <2>3. bytes[n].part = Size /\ Size # Separator
      BY <1>2, <2>2, Numbers
    <2> QED BY <2>3 DEF EndsLine
  <1> QED BY <1>1, <1>2

\* Where all lines can be read, the file ends in an event or behind one.
LEMMA EndOfReadable ==
  ASSUME NEW bytes \in Seq(Pieces), NEW end \in 1 .. Len(bytes),
         \A s \in LineStarts(bytes) : s <= end => ReadsTo(bytes, s, end)
  PROVE  bytes[end].part \in {Size, Separator}
  <1>1. Len(bytes) \in Nat /\ LineStarts(bytes) \subseteq 1 .. Len(bytes)
    BY StartsAre
  <1> DEFINE T == {s \in LineStarts(bytes) : s <= end}
  <1>2. T \subseteq 1 .. end /\ T # {}
    <2>1. 1 \in LineStarts(bytes)
      BY <1>1 DEF LineStarts
    <2>2. 1 \in T
      BY <1>1, <2>1
    <2> QED BY <1>1, <2>2
  <1>3. PICK m \in T : \A s \in T : s <= m
    <2>1. end \in Nat
      BY <1>1
    <2> HIDE DEF T
    <2> QED BY <1>2, <2>1, GreatestExists
  <1>4. m \in LineStarts(bytes) /\ m \in 1 .. end /\ ReadsTo(bytes, m, end)
    BY <1>2, <1>3
  <1>5. PICK d \in Events :
           \/ Holds(bytes, m, d, Separator) /\ m + Size <= end
           \/ Holds(bytes, m, d, Size) /\ m + Size - 1 = end
    BY <1>4 DEF ReadsTo
  <1>6. CASE Holds(bytes, m, d, Separator) /\ m + Size <= end
    <2>1. m + Separator - 1 = m + Size /\ Separator \in 1 .. Separator
      BY <1>1, <1>4, Numbers
    <2>2. bytes[m + Separator - 1] = [event |-> d, part |-> Separator]
      BY <1>6, <2>1 DEF Holds
    <2>3. bytes[m + Size].part = Separator
      BY <2>1, <2>2
    <2>4. CASE m + Size = end
      BY <2>3, <2>4
    <2>5. CASE m + Size # end
      <3>1. m + Size + 1 \in 1 .. Len(bytes) /\ (m + Size + 1) - 1 = m + Size
            /\ m + Size + 1 <= end /\ m \in Nat
        BY <1>1, <1>4, <1>6, <2>5, Numbers
      <3>2. m + Size + 1 \in LineStarts(bytes)
        BY <2>3, <3>1 DEF LineStarts
      <3>3. m + Size + 1 <= m
        BY <1>3, <3>1, <3>2
      <3> QED BY <3>1, <3>3, Numbers
    <2> QED BY <2>4, <2>5
  <1>7. CASE Holds(bytes, m, d, Size) /\ m + Size - 1 = end
    <2>1. Size \in 1 .. Size
      BY Numbers
    <2>2. bytes[m + Size - 1] = [event |-> d, part |-> Size]
      BY <1>7, <2>1 DEF Holds
    <2> QED BY <1>7, <2>2
  <1> QED BY <1>5, <1>6, <1>7

\* An acknowledged event stays where it is as long as its pieces do.
LEMMA KeptAgree ==
  ASSUME file \in Seq(Pieces), file' \in Seq(Pieces), AcknowledgedIsDurable,
         durable \in Nat, durable <= Len(file), NEW n \in Nat, durable <= n,
         n <= Len(file), n <= Len(file'), \A i \in 1 .. n : file'[i] = file[i],
         durable' \in Nat, durable <= durable', named => named',
         acknowledged' = acknowledged
  PROVE  AcknowledgedIsDurable'
  <1> SUFFICES ASSUME NEW e \in acknowledged
               PROVE  \E s \in LineStarts(file') :
                         /\ Demanded(file', s, e) /\ Holds(file', s, e, Separator)
                         /\ s + Size <= durable'
    BY DEF AcknowledgedIsDurable
  <1>1. PICK s \in LineStarts(file) :
          /\ Demanded(file, s, e) /\ Holds(file, s, e, Separator)
          /\ s + Size <= durable
    BY DEF AcknowledgedIsDurable
  <1>2. s \in Nat \ {0} /\ Size \in Nat /\ Separator \in Nat
        /\ s + Separator - 1 = s + Size
    BY StartsAre, Numbers
  <1>3. s \in 1 .. n /\ s + Separator - 1 <= n /\ s + Size <= durable'
    BY <1>1, <1>2
  <1>4. s \in LineStarts(file')
    BY <1>3, StartsAgree
  <1>5. Demanded(file', s, e)
    BY <1>1, <1>3, StartsAgree
  <1>6. Holds(file', s, e, Separator)
    BY <1>1, <1>2, <1>3, StartsAgree
  <1> QED BY <1>3, <1>4, <1>5, <1>6

LEMMA ReadEventsLength ==
  ASSUME NEW bytes \in Seq(Pieces)
  PROVE  Len(ReadEvents(bytes)) = Cardinality(LineStarts(bytes))
  <1> DEFINE k == Cardinality(LineStarts(bytes))
             r == ReadEvents(bytes)
             S == {r[n] : n \in 1 .. k}
  <1>1. k \in Nat
    BY StartsAre
  <1>2. r \in [1 .. k -> S]
    BY DEF ReadEvents
  <1> HIDE DEF S, r, k
  <1>3. r \in Seq(S)
    BY <1>1, <1>2, SeqDef
  <1>4. Len(r) \in Nat /\ DOMAIN r = 1 .. Len(r)
    BY <1>3, LenProperties
  <1>5. PICK l \in Nat : l = Len(r)
    BY <1>4
  <1>6. 1 .. k = 1 .. l
    BY <1>2, <1>4, <1>5
  <1>7. k = l
    <2>1. k = 0 \/ k \in 1 .. k
      BY <1>1
    <2>2. l = 0 \/ l \in 1 .. l
      BY <1>5
    <2>3. (k = 0 \/ k \in 1 .. l) /\ (l = 0 \/ l \in 1 .. k)
      BY <1>6, <2>1, <2>2
    <2> QED BY <1>1, <1>5, <2>3
  <1> QED BY <1>5, <1>7 DEF r, k

----------------------------------------------------------------------------
(* The steps *)

LEMMA InitInv == Init => Inv
  <1> SUFFICES ASSUME Init PROVE Inv
    OBVIOUS
  <1>1. file \in Seq(Pieces) /\ Len(file) = 0
    BY EmptySeq DEF Init
  <1>2. TypeOK
    <2>1. /\ 0 \in 0 .. Separator /\ 0 \in 0 .. MaxFailures /\ 0 \in 0 .. MaxLosses
          /\ 0 \in 0 .. 0
      BY Numbers
    <2>2. /\ pc \in [Writers -> Steps] /\ event \in [Writers -> Events \union {None}]
          /\ written \in [Writers -> 0 .. Separator]
      BY <2>1 DEF Init, Steps
    <2> QED BY <1>1, <2>1, <2>2 DEF Init, TypeOK
  <1>3. \A w \in Writers : pc[w] = "idle" /\ lock # w
    BY FileBounds DEF Init
  <1>4. LineStarts(file) = {}
    BY <1>1 DEF LineStarts
  <1>5. NothingBehindATornLine
    BY <1>1 DEF NothingBehindATornLine
  <1> QED BY <1>1, <1>2, <1>3, <1>4, <1>5 DEF Inv, HoldsLock, AppendersKnow, OnlyTheLastIsDamaged,
         NothingUnasked, Undisturbed, AcknowledgedIsDurable, EndsLine, Init

\* The holder of the lock is alone in an append.
LEMMA Alone ==
  ASSUME Inv, NEW w \in Writers, pc[w] # "idle"
  PROVE  /\ lock = w /\ lock # None /\ requested /\ Appends(w)
         /\ \A v \in Writers : v # w => pc[v] = "idle"
  <1>1. lock = w /\ \A v \in Writers : v # w => pc[v] = "idle"
    BY DEF Inv, HoldsLock
  <1>2. lock # None
    BY <1>1, FileBounds
  <1>3. requested
    BY <1>2 DEF Inv, NothingUnasked, TypeOK
  <1> QED BY <1>1, <1>2, <1>3 DEF Inv, AppendersKnow

\* What a process knows when it begins to append.
LEMMA Beginning ==
  ASSUME Inv, NEW w \in Writers, lock = None, NEW q \in 0 .. MaxEvents - 1, Begin(w, q),
         UNCHANGED <<file, durable, named, acknowledged, failures, losses>>,
         requested' = TRUE,
         Cardinality(LineStarts(file)) = q,
         \A s \in LineStarts(file) : ReadsTo(file, s, Len(file))
  PROVE  Inv'
  <1> DEFINE e == [sequence |-> q, writer |-> w]
  <1>1. e \in Events
    BY DEF Events
  <1>2. /\ lock' = w /\ pc' = [pc EXCEPT ![w] = "write"]
        /\ event' = [event EXCEPT ![w] = e] /\ written' = [written EXCEPT ![w] = 0]
    BY DEF Begin, Goto
  <1> HIDE DEF e
  <1>3. /\ file \in Seq(Pieces) /\ Len(file) \in Nat
        /\ LineStarts(file) \subseteq 1 .. Len(file)
    BY StartsAre DEF Inv, TypeOK
  <1>4. TypeOK'
    BY <1>1, <1>2, <1>3, Numbers DEF Inv, TypeOK, Steps
  <1>5. pc'[w] = "write" /\ event'[w] = e /\ written'[w] = 0
    BY <1>2 DEF Inv, TypeOK
  <1>6. \A v \in Writers : pc[v] = "idle"
    BY FileBounds DEF Inv, HoldsLock
  <1>7. \A v \in Writers : v # w => pc'[v] = "idle"
    BY <1>2, <1>6 DEF Inv, TypeOK
  <1>8. HoldsLock'
    BY <1>2, <1>5, <1>7 DEF HoldsLock
  <1>9. Base(w)' = Len(file)
    BY <1>3, <1>5 DEF Base
  <1>10. {s \in LineStarts(file) : s <= Len(file)} = LineStarts(file)
    BY <1>3
  <1>11. Appends(w)'
    <2>1. event'[w] \in Events /\ event'[w].sequence = q
      BY <1>1, <1>5 DEF e
    <2>2. written'[w] \in 0 .. Size /\ written'[w] <= Len(file')
      BY <1>3, <1>5, Numbers
    <2>3. (failures + losses = 0 => EndsLine(file, Base(w)))'
      BY <1>9 DEF Inv, Undisturbed
    <2>4. \A n \in 1 .. written'[w] : FALSE
      BY <1>5
    <2>5. Cardinality({s \in LineStarts(file') : s <= Base(w)'}) = event'[w].sequence
      BY <1>9, <1>10, <2>1
    <2>6. \A s \in LineStarts(file') : s <= Base(w)' => ReadsTo(file', s, Base(w)')
      BY <1>9
    <2> QED BY <1>5, <2>1, <2>2, <2>3, <2>4, <2>5, <2>6 DEF Appends
  <1>12. AppendersKnow'
    BY <1>7, <1>11 DEF AppendersKnow
  <1>13. OnlyTheLastIsDamaged' /\ NothingBehindATornLine' /\ AcknowledgedIsDurable'
    BY DEF Inv, OnlyTheLastIsDamaged, NothingBehindATornLine, AcknowledgedIsDurable
  <1>14. NothingUnasked'
    BY DEF NothingUnasked
  <1>15. Undisturbed'
    BY <1>2, <1>5, FileBounds DEF Undisturbed
  <1> QED BY <1>4, <1>8, <1>12, <1>13, <1>14, <1>15 DEF Inv

LEMMA Creating ==
  ASSUME Inv, NEW w \in Writers, Create(w) PROVE Inv'
  <1>1. file = <<>> /\ lock = None
    BY DEF Create, Inv, NothingUnasked
  <1>2. LineStarts(file) = {}
    BY <1>1, EmptySeq DEF LineStarts
  <1>3. Cardinality(LineStarts(file)) = 0
    BY <1>2, FS_EmptySet
  <1>4. 0 \in 0 .. MaxEvents - 1
    BY Numbers
  <1> QED BY <1>1, <1>2, <1>3, <1>4, Beginning DEF Create

LEMMA Preparing ==
  ASSUME Inv, NEW w \in Writers, Prepare(w) PROVE Inv'
  <1> DEFINE q == Len(ReadEvents(file))
  <1>1. /\ lock = None /\ Readable(file) /\ q \in 1 .. MaxEvents - 1 /\ Begin(w, q)
        /\ UNCHANGED <<disk, acknowledged, failures, losses>>
    BY DEF Prepare
  <1>2. file \in Seq(Pieces)
    BY DEF Inv, TypeOK
  <1>3. Cardinality(LineStarts(file)) = q
    BY <1>2, ReadEventsLength
  <1>4. \A s \in LineStarts(file) : ReadsTo(file, s, Len(file))
    BY <1>1, <1>2, ReadingIs DEF Readable
  <1>5. requested = TRUE
    <2>1. ASSUME file = <<>> PROVE FALSE
      <3>1. LineStarts(file) = {}
        BY <2>1, EmptySeq DEF LineStarts
      <3>2. q = 0
        BY <1>3, <3>1, FS_EmptySet
      <3> QED BY <1>1, <3>2
    <2> QED BY <2>1 DEF Inv, NothingUnasked, TypeOK
  <1>6. q \in 0 .. MaxEvents - 1
    BY <1>1
  <1> HIDE DEF q
  <1> QED BY <1>1, <1>3, <1>4, <1>5, <1>6, Beginning DEF disk

\* One write of some pieces of the line.  Lines that were whole stay so, and a
\* line that starts is the one that is being written.
LEMMA Writing ==
  ASSUME Inv, NEW w \in Writers, Write(w) PROVE Inv'
  <1> DEFINE more(upto) == SubSeq(LineOf(event[w]), written[w] + 1, upto)
  <1>1. /\ pc[w] = "write" /\ lock = w /\ lock # None /\ requested /\ Appends(w)
        /\ \A v \in Writers : v # w => pc[v] = "idle"
    BY Alone DEF Write
  <1>2. PICK upto \in written[w] + 1 .. Separator :
          /\ file' = file \o more(upto)
          /\ written' = [written EXCEPT ![w] = upto]
          /\ pc' = [pc EXCEPT ![w] = IF upto = Separator THEN "sync" ELSE "write"]
    BY DEF Write, Goto
  <1>3. /\ durable' = durable /\ named' = named /\ requested' = requested /\ lock' = lock
        /\ event' = event /\ acknowledged' = acknowledged /\ failures' = failures
        /\ losses' = losses
    BY DEF Write
  <1>4. PICK e, k, b, len : /\ e = event[w] /\ k = written[w] /\ b = Base(w)
                            /\ len = Len(file)
    OBVIOUS
  <1>5. /\ file \in Seq(Pieces) /\ len \in Nat /\ e \in Events
        /\ k \in 0 .. Size /\ k <= len /\ b = len - k /\ b \in Nat /\ b <= len
        /\ upto \in k + 1 .. Separator /\ upto \in 1 .. Separator
        /\ Separator \in Nat /\ durable \in 0 .. len
    BY <1>1, <1>2, <1>4, LenProperties, Numbers DEF Appends, Base, Inv, TypeOK
  <1> DEFINE m == SubSeq(LineOf(e), k + 1, upto)
  <1>6. /\ m \in Seq(Pieces) /\ Len(m) = upto - k
        /\ \A n \in 1 .. upto - k : m[n] = [event |-> e, part |-> k + n]
    <2>1. \A n \in k + 1 .. upto : n \in 1 .. Separator
      BY <1>5
    <2>2. \A n \in k + 1 .. upto : LineOf(e)[n] \in Pieces
      BY <1>5, <2>1, LineOfIs, ElementOfSeq
    <2>3. /\ m \in Seq(Pieces)
          /\ Len(m) = IF k + 1 <= upto THEN upto - (k + 1) + 1 ELSE 0
          /\ \A n \in 1 .. upto - (k + 1) + 1 : m[n] = LineOf(e)[k + 1 + n - 1]
      BY <1>5, <2>2, SubSeqProperties
    <2> HIDE DEF m
    <2>4. \A n \in 1 .. upto - k : /\ n \in 1 .. upto - (k + 1) + 1
                                   /\ k + 1 + n - 1 = k + n /\ k + n \in 1 .. Separator
      BY <1>5
    <2>5. \A n \in 1 .. upto - k : m[n] = LineOf(e)[k + n]
      BY <2>3, <2>4
    <2>6. \A n \in 1 .. upto - k : LineOf(e)[k + n] = [event |-> e, part |-> k + n]
      BY <1>5, <2>4, LineOfIs
    <2>7. Len(m) = upto - k
      BY <1>5, <2>3
    <2> QED BY <2>3, <2>5, <2>6, <2>7
  <1>7. file' = file \o m
    BY <1>2, <1>4
  <1> HIDE DEF m
  <1>8. /\ file' \in Seq(Pieces) /\ Len(file') = b + upto /\ Len(file') \in Nat
        /\ len <= Len(file')
        /\ \A i \in 1 .. len : file'[i] = file[i]
        /\ \A i \in 1 .. upto - k : file'[len + i] = m[i]
    <2>1. /\ file' \in Seq(Pieces) /\ Len(file') = len + (upto - k)
          /\ \A i \in 1 .. len + (upto - k) :
                file'[i] = IF i <= len THEN file[i] ELSE m[i - len]
      <3>1. /\ file \o m \in Seq(Pieces) /\ Len(file \o m) = Len(file) + Len(m)
            /\ \A i \in 1 .. Len(file) + Len(m) :
                  (file \o m)[i] = IF i <= Len(file) THEN file[i] ELSE m[i - Len(file)]
        BY <1>5, <1>6, ConcatProperties
      <3>2. len = Len(file) /\ Len(m) = upto - k
        BY <1>4, <1>6
      <3> QED BY <1>7, <3>1, <3>2
    <2>2. \A i \in 1 .. upto - k : /\ len + i \in 1 .. len + (upto - k) /\ ~(len + i <= len)
                                   /\ (len + i) - len = i
      BY <1>5
    <2>3. \A i \in 1 .. upto - k : file'[len + i] = m[i]
      BY <2>1, <2>2
    <2>4. /\ len + (upto - k) = b + upto /\ b + upto \in Nat /\ len <= b + upto
          /\ \A i \in 1 .. len : i \in 1 .. len + (upto - k) /\ i <= len
      BY <1>5
    <2>5. \A i \in 1 .. len : file'[i] = file[i]
      BY <2>1, <2>4
    <2> QED BY <2>1, <2>3, <2>4, <2>5
  <1>9. \A n \in 1 .. upto : file'[b + n] = [event |-> e, part |-> n]
    <2> SUFFICES ASSUME NEW n \in 1 .. upto PROVE file'[b + n] = [event |-> e, part |-> n]
      OBVIOUS
    <2>1. CASE n <= k
      <3>1. n \in 1 .. k /\ b + n \in 1 .. len
        BY <1>5, <2>1
      <3>2. file[b + n] = [event |-> e, part |-> n]
        BY <1>1, <1>4, <3>1 DEF Appends
      <3> QED BY <1>8, <3>1, <3>2
    <2>2. CASE n > k
      <3>1. n - k \in 1 .. upto - k /\ len + (n - k) = b + n /\ k + (n - k) = n
        BY <1>5, <2>2
      <3>2. file'[len + (n - k)] = m[n - k] /\ m[n - k] = [event |-> e, part |-> k + (n - k)]
        BY <1>6, <1>8, <3>1
      <3> QED BY <3>1, <3>2
    <2> QED BY <1>5, <2>1, <2>2
  <1>10. /\ Base(w)' = b /\ written'[w] = upto /\ event'[w] = e
         /\ pc'[w] = (IF upto = Separator THEN "sync" ELSE "write")
         /\ \A v \in Writers : v # w => pc'[v] = "idle"
    <2>1. written'[w] = upto /\ event'[w] = e
      BY <1>2, <1>3, <1>4 DEF Inv, TypeOK
    <2>2. Base(w)' = b
      BY <1>5, <1>8, <2>1 DEF Base
    <2> QED BY <1>1, <1>2, <2>1, <2>2 DEF Inv, TypeOK
  <1>11. \A i \in 1 .. b : file'[i] = file[i]
    BY <1>5, <1>8
  <1>12. b <= Len(file) /\ b <= Len(file')
    BY <1>4, <1>5, <1>8
  <1>13. TypeOK'
    <2>1. durable \in 0 .. Len(file')
      BY <1>5, <1>8
    <2>2. pc' \in [Writers -> Steps] /\ written' \in [Writers -> 0 .. Separator]
      BY SMTT(30), <1>2, <1>5 DEF Inv, TypeOK, Steps
    <2> QED BY <1>3, <1>8, <2>1, <2>2 DEF Inv, TypeOK
  <1>14. HoldsLock'
    BY <1>1, <1>3, <1>10 DEF HoldsLock
  <1>15. \A s \in LineStarts(file') : s <= b => s \in LineStarts(file) /\ s \in 1 .. b
    <2>1. \A s \in LineStarts(file') : s \in Nat \ {0}
      BY <1>8, StartsAre
    <2>2. \A s \in 1 .. b : s \in LineStarts(file) <=> s \in LineStarts(file')
      BY <1>5, <1>8, <1>11, <1>12, StartsAgree
    <2> QED BY <1>5, <2>1, <2>2
  <1>16. \A s \in LineStarts(file') : s <= b => ReadsTo(file', s, b)
    <2> SUFFICES ASSUME NEW s \in LineStarts(file'), s <= b PROVE ReadsTo(file', s, b)
      OBVIOUS
    <2>1. s \in LineStarts(file) /\ s \in 1 .. b
      BY <1>15
    <2>2. ReadsTo(file, s, b)
      BY <1>1, <1>4, <2>1 DEF Appends
    <2> QED BY <1>5, <1>8, <1>11, <1>12, <2>1, <2>2, ReadsAgree
  <1>17. /\ \A t \in LineStarts(file') : b < t => t = b + 1 /\ EndsLine(file', b)
         /\ EndsLine(file', b) => b + 1 \in LineStarts(file')
         /\ upto = Separator =>
              Holds(file', b + 1, e, Separator) /\ b + 1 + Size = Len(file')
    <2>1. Follow(file', b, e, upto)
      BY <1>8, <1>9 DEF Follow
    <2> QED BY <1>5, <1>8, <2>1, StartsAfter
  <1>18. failures + losses = 0 => EndsLine(file', b)
    <2>1. failures + losses = 0 => EndsLine(file, b)
      BY <1>1, <1>4 DEF Appends
    <2>2. b = 0 \/ b \in 1 .. b
      BY <1>5
    <2> QED BY <1>11, <2>1, <2>2 DEF EndsLine
  <1>19. /\ {s \in LineStarts(file') : s <= b} = {s \in LineStarts(file) : s <= b}
         /\ Cardinality({s \in LineStarts(file') : s <= b}) = e.sequence
    <2>1. {s \in LineStarts(file) : s <= b} = {s \in LineStarts(file') : s <= b}
      <3>1. b \in Nat /\ file \in Seq(Pieces) /\ file' \in Seq(Pieces)
        BY <1>5, <1>8
      <3>2. \A i \in 1 .. b : file[i] = file'[i]
        BY <1>11
      <3> QED BY ONLY <1>12, <3>1, <3>2, StartsAgree
    <2>2. Cardinality({s \in LineStarts(file) : s <= b}) = e.sequence
      BY <1>1, <1>4 DEF Appends
    <2> QED BY <2>1, <2>2
  <1>20. Appends(w)'
    <2>1. event'[w] \in Events
      BY <1>5, <1>10
    <2>2. IF pc'[w] = "write" THEN written'[w] \in 0 .. Size ELSE written'[w] = Separator
      BY <1>5, <1>10, Numbers
    <2>3. written'[w] <= Len(file')
      BY <1>5, <1>8, <1>10
    <2>4. \A n \in 1 .. written'[w] : file'[Base(w)' + n] = [event |-> event'[w], part |-> n]
      BY <1>9, <1>10
    <2>5. Cardinality({s \in LineStarts(file') : s <= Base(w)'}) = event'[w].sequence
      BY <1>10, <1>19
    <2>6. \A s \in LineStarts(file') : s <= Base(w)' => ReadsTo(file', s, Base(w)')
      BY <1>10, <1>16
    <2>7. failures' + losses' = 0 => EndsLine(file', Base(w)')
      BY <1>3, <1>10, <1>18
    <2>8. pc'[w] \notin {"name", "project"}
      BY <1>10
    <2> QED BY <2>1, <2>2, <2>3, <2>4, <2>5, <2>6, <2>7, <2>8 DEF Appends
  <1>21. AppendersKnow'
    BY <1>10, <1>20 DEF AppendersKnow
  <1>22. OnlyTheLastIsDamaged'
    <2> SUFFICES ASSUME NEW s \in LineStarts(file'), NEW t \in LineStarts(file'), s < t
                 PROVE  Whole(file', s)
      BY DEF OnlyTheLastIsDamaged
    <2>1. s \in Nat /\ t \in Nat
      BY <1>8, StartsAre
    <2>2. s <= b
      BY <1>5, <1>17, <2>1
    <2>3. ReadsTo(file', s, b) /\ s \in LineStarts(file) /\ s \in 1 .. b
      BY <1>15, <1>16, <2>2
    <2>4. CASE b < t
      <3>1. EndsLine(file', b)
        BY <1>17, <2>4
      <3> QED BY <1>5, <1>8, <1>12, <2>3, <3>1, ReadsWhole DEF Whole
    <2>5. CASE t <= b
      <3>1. PICK d \in Events : /\ Demanded(file', s, d)
                                /\ \/ Holds(file', s, d, Separator)
                                   \/ Holds(file', s, d, Size) /\ s + Size - 1 = b
        BY <2>3 DEF ReadsTo
      <3>2. ASSUME Holds(file', s, d, Size), s + Size - 1 = b PROVE FALSE
        <4>1. s + Size < t
          BY <1>8, <3>2, NoStartInside
        <4> QED BY <1>5, <2>1, <2>5, <3>2, <4>1, Numbers
      <3> QED BY <3>1, <3>2 DEF Whole
    <2> QED BY <1>5, <2>1, <2>4, <2>5
  <1>23. Undisturbed'
    <2> SUFFICES ASSUME failures + losses = 0, pc'[w] # "write",
                        NEW s \in LineStarts(file')
                 PROVE  ReadsTo(file', s, Len(file'))
      BY <1>1, <1>3 DEF Undisturbed
    <2>1. upto = Separator /\ EndsLine(file', b) /\ s \in Nat
      BY <1>8, <1>10, <1>18, StartsAre
    <2>2. CASE s <= b
      <3>1. PICK d \in Events : /\ Demanded(file', s, d) /\ Holds(file', s, d, Separator)
                                /\ s + Size <= b
        BY <1>5, <1>8, <1>12, <1>15, <1>16, <2>1, <2>2, ReadsWhole
      <3>2. s + Size <= Len(file')
        BY SMTT(30), <1>5, <1>12, <1>8, <2>1, <3>1, Numbers
      <3> QED BY <3>1, <3>2 DEF ReadsTo
    <2>3. CASE b < s
      <3>1. s = b + 1 /\ Holds(file', s, e, Separator) /\ s + Size = Len(file')
        BY <1>17, <2>1, <2>3
      <3>2. {x \in LineStarts(file') : x < s} = {x \in LineStarts(file') : x <= b}
        <4>1. \A x \in LineStarts(file') : x \in Nat
          BY <1>8, StartsAre
        <4>2. \A x \in Nat : x < b + 1 <=> x <= b
          BY <1>5
        <4> QED BY <3>1, <4>1, <4>2
      <3>3. LineNumber(file', s) = e.sequence + 1
        BY <1>19, <3>2 DEF LineNumber
      <3>4. Demanded(file', s, e)
        BY <1>5, <3>3 DEF Demanded, Events
      <3>5. s + Size <= Len(file')
        BY <1>8, <3>1
      <3> QED BY <1>5, <3>1, <3>4, <3>5 DEF ReadsTo
    <2> QED BY <1>5, <2>1, <2>2, <2>3
  <1>24. NothingUnasked'
    BY <1>1, <1>3 DEF NothingUnasked
  <1>25. AcknowledgedIsDurable'
    <2>1. /\ durable \in Nat /\ durable <= len /\ len <= Len(file)
          /\ durable <= Len(file) /\ durable' = durable /\ durable <= durable
      BY <1>3, <1>4, <1>5
    <2> QED BY <1>3, <1>5, <1>8, <2>1, KeptAgree DEF Inv
  <1>26. NothingBehindATornLine'
    <2> SUFFICES ASSUME NEW n \in 1 .. Len(file') - 1 PROVE Follows(file'[n], file'[n + 1])
      BY DEF NothingBehindATornLine
    <2>1. CASE n < b
      <3>1. n \in 1 .. Len(file) - 1 /\ n \in 1 .. b /\ n + 1 \in 1 .. b
        BY <1>5, <1>8, <1>12, <2>1
      <3>2. Follows(file[n], file[n + 1])
        BY <3>1 DEF Inv, NothingBehindATornLine
      <3> QED BY <1>11, <3>1, <3>2
    <2>2. CASE n = b
      <3>1. b \in 1 .. Len(file') /\ 1 \in 1 .. upto
        BY <1>5, <1>8, <2>2
      <3>2. file'[b].part \in {Size, Separator}
        BY <1>8, <1>16, <3>1, EndOfReadable
      <3>3. file'[b + 1] = [event |-> e, part |-> 1]
        BY <1>9, <3>1
      <3> QED BY <2>2, <3>2, <3>3 DEF Follows
    <2>3. CASE b < n
      <3>1. /\ n - b \in 1 .. upto /\ n - b + 1 \in 1 .. upto
            /\ b + (n - b) = n /\ b + (n - b + 1) = n + 1
        <4>1. PICK l \in Nat : l = Len(file') /\ l = b + upto
          BY <1>8
        <4>2. n \in 1 .. l - 1 /\ b \in Nat /\ upto \in Nat /\ b < n
          BY <1>5, <2>3, <4>1
        <4> QED BY ONLY <4>1, <4>2
      <3>2. /\ file'[b + (n - b)] = [event |-> e, part |-> n - b]
            /\ file'[b + (n - b + 1)] = [event |-> e, part |-> n - b + 1]
        BY <1>9, <3>1
      <3> QED BY <3>1, <3>2 DEF Follows
    <2> QED BY <1>5, <1>8, <2>1, <2>2, <2>3
  <1> QED BY <1>13, <1>14, <1>21, <1>22, <1>23, <1>24, <1>25, <1>26 DEF Inv

\* A step that leaves the file alone and its writer in the append.
LEMMA Syncing ==
  ASSUME Inv, NEW w \in Writers, Sync(w) \/ SyncName(w) PROVE Inv'
  <1>1. /\ pc[w] \in {"sync", "name"} /\ file' = file /\ requested' = requested
        /\ lock' = lock /\ event' = event /\ written' = written
        /\ acknowledged' = acknowledged /\ failures' = failures /\ losses' = losses
        /\ \/ pc[w] = "sync" /\ durable' = Len(file) /\ named' = named
              /\ pc' = [pc EXCEPT ![w] = "name"]
           \/ pc[w] = "name" /\ durable' = durable /\ named' = TRUE
              /\ pc' = [pc EXCEPT ![w] = "project"]
    BY DEF Sync, SyncName, Goto
  <1>2. /\ lock = w /\ Appends(w) /\ requested
        /\ \A v \in Writers : v # w => pc[v] = "idle"
    BY <1>1, Alone
  <1>3. file \in Seq(Pieces) /\ Len(file) \in Nat /\ durable \in 0 .. Len(file)
    BY LenProperties DEF Inv, TypeOK
  <1>4. durable' \in 0 .. Len(file) /\ durable <= durable' /\ named' \in BOOLEAN
        /\ (named => named')
    <2>1. Len(file) \in 0 .. Len(file) /\ durable <= Len(file) /\ durable <= durable
      BY <1>3
    <2>2. durable' = Len(file) \/ durable' = durable
      BY <1>1
    <2>3. named' = named \/ named' = TRUE
      BY <1>1
    <2>4. named \in BOOLEAN
      BY DEF Inv, TypeOK
    <2>5. durable' \in 0 .. Len(file) /\ durable <= durable'
      <3>1. CASE durable' = Len(file)
        BY <2>1, <3>1
      <3>2. CASE durable' = durable
        BY <1>3, <2>1, <3>2
      <3> QED BY <2>2, <3>1, <3>2
    <2>6. CASE named' = named
      BY <2>4, <2>5, <2>6
    <2>7. CASE named' = TRUE
      BY <2>5, <2>7
    <2> QED BY <2>3, <2>6, <2>7
  <1>5. /\ pc' \in [Writers -> Steps]
        /\ pc'[w] = (IF pc[w] = "sync" THEN "name" ELSE "project")
        /\ \A v \in Writers : v # w => pc'[v] = "idle"
    BY <1>1, <1>2 DEF Inv, TypeOK, Steps
  <1>6. TypeOK'
    BY <1>1, <1>4, <1>5 DEF Inv, TypeOK
  <1>7. HoldsLock'
    BY <1>1, <1>2, <1>5 DEF HoldsLock
  <1>8. Appends(w)'
    <2>1. pc'[w] \in {"name", "project"} => durable' = Len(file)
      BY <1>1, <1>2 DEF Appends
    <2>2. pc'[w] = "project" => named'
      BY <1>1, <1>5
    <2>3. Base(w)' = Base(w)
      BY <1>1 DEF Base
    <2>4. pc'[w] # "write" /\ pc[w] # "write"
      BY <1>1, <1>5
    <2> QED BY <1>1, <1>2, <2>1, <2>2, <2>3, <2>4 DEF Appends
  <1>9. AppendersKnow'
    BY <1>5, <1>8 DEF AppendersKnow
  <1>10. OnlyTheLastIsDamaged' /\ NothingBehindATornLine' /\ NothingUnasked'
    BY <1>1 DEF Inv, OnlyTheLastIsDamaged, NothingBehindATornLine, NothingUnasked
  <1>11. Undisturbed'
    <2>1. \A v \in Writers : pc[v] # "write"
      BY <1>1, <1>2
    <2> QED BY <1>1, <2>1 DEF Inv, Undisturbed
  <1>12. AcknowledgedIsDurable'
    <2>1. \A i \in 1 .. Len(file) : file'[i] = file[i]
      BY <1>1
    <2>2. durable \in Nat /\ durable <= Len(file) /\ durable' \in Nat /\ Len(file) <= Len(file')
          /\ Len(file) <= Len(file)
      BY <1>1, <1>3, <1>4
    <2> QED BY <1>1, <1>3, <1>4, <2>1, <2>2, KeptAgree DEF Inv
  <1> QED BY <1>6, <1>7, <1>9, <1>10, <1>11, <1>12 DEF Inv

\* An append that ends, one way or another, leaves the lock and what it wrote.
LEMMA Releasing ==
  ASSUME Inv, NEW w \in Writers, pc[w] # "idle", Release(w), UNCHANGED disk,
         failures' \in 0 .. MaxFailures, losses' = losses,
         acknowledged' \subseteq Events,
         AcknowledgedIsDurable', Undisturbed'
  PROVE  Inv'
  <1>1. /\ lock = w /\ \A v \in Writers : v # w => pc[v] = "idle"
        /\ requested
    BY Alone
  <1>2. /\ lock' = None /\ event' = [event EXCEPT ![w] = None]
        /\ written' = [written EXCEPT ![w] = 0] /\ pc' = [pc EXCEPT ![w] = "idle"]
    BY <1>1 DEF Release, Goto
  <1>3. 0 \in 0 .. Separator
    BY Numbers
  <1>4. TypeOK'
    BY <1>2, <1>3 DEF Inv, TypeOK, Steps, disk
  <1>5. \A v \in Writers : pc'[v] = "idle" /\ lock' # v
    BY <1>1, <1>2, FileBounds DEF Inv, TypeOK
  <1>6. HoldsLock' /\ AppendersKnow'
    BY <1>5 DEF HoldsLock, AppendersKnow
  <1>7. OnlyTheLastIsDamaged' /\ NothingBehindATornLine'
    BY DEF Inv, OnlyTheLastIsDamaged, NothingBehindATornLine, disk
  <1>8. NothingUnasked'
    BY <1>1 DEF NothingUnasked, disk
  <1> QED BY <1>4, <1>6, <1>7, <1>8 DEF Inv

LEMMA Abandoning ==
  ASSUME Inv, NEW w \in Writers, Abandon(w) PROVE Inv'
  <1>1. /\ pc[w] # "idle" /\ Release(w) /\ UNCHANGED disk /\ losses' = losses
        /\ acknowledged' = acknowledged
        /\ failures < MaxFailures /\ failures' = failures + 1
    BY DEF Abandon
  <1>2. failures \in Nat /\ losses \in Nat /\ failures' \in 0 .. MaxFailures
    BY <1>1, Numbers DEF Inv, TypeOK
  <1>3. Undisturbed'
    BY <1>1, <1>2 DEF Undisturbed
  <1>4. AcknowledgedIsDurable'
    BY <1>1 DEF Inv, AcknowledgedIsDurable, disk
  <1> QED BY <1>1, <1>2, <1>3, <1>4, Releasing DEF Inv, TypeOK

\* A line that was joined to what was cut short cannot be read.
LEMMA ReadableIsApart ==
  ASSUME Inv, NEW w \in Writers, pc[w] = "project", Readable(file)
  PROVE  EndsLine(file, Base(w))
  <1>1. Appends(w)
    BY Alone
  <1>2. PICK e, b : e = event[w] /\ b = Base(w)
    OBVIOUS
  <1>3. /\ file \in Seq(Pieces) /\ Len(file) \in Nat /\ b \in Nat /\ Len(file) = b + Separator
        /\ \A n \in 1 .. Separator : file[b + n] = [event |-> e, part |-> n]
        /\ \A s \in LineStarts(file) : s <= b => ReadsTo(file, s, b)
    BY SMTT(30), <1>1, <1>2, LenProperties, Numbers DEF Inv, TypeOK, Appends, Base
  <1> SUFFICES ASSUME ~EndsLine(file, b) PROVE FALSE
    BY <1>2
  <1>4. b \in 1 .. Len(file) /\ file[b].part # Separator
    BY <1>3, Numbers DEF EndsLine
  <1> DEFINE T == {s \in LineStarts(file) : s <= b}
  <1>5. 1 \in T /\ T \subseteq 1 .. b
    <2>1. LineStarts(file) \subseteq 1 .. Len(file)
      BY <1>3, StartsAre
    <2>2. 1 \in LineStarts(file)
      BY <1>3, <1>4 DEF LineStarts
    <2> QED BY <1>3, <1>4, <2>1, <2>2
  <1>6. PICK m \in T : \A s \in T : s <= m
    <2> HIDE DEF T
    <2> QED BY <1>3, <1>5, GreatestExists
  <1>7. m \in LineStarts(file) /\ m \in 1 .. b
    BY <1>5, <1>6
  <1>8. PICK d \in Events :
           \/ Holds(file, m, d, Separator) /\ m + Size <= b
           \/ Holds(file, m, d, Size) /\ m + Size - 1 = b
    BY <1>3, <1>7 DEF ReadsTo
  <1>9. ASSUME Holds(file, m, d, Separator), m + Size <= b PROVE FALSE
    <2>1. m + Separator - 1 = m + Size /\ Separator \in 1 .. Separator
      BY <1>3, <1>7, Numbers
    <2>2. file[m + Separator - 1] = [event |-> d, part |-> Separator]
      BY <1>9, <2>1 DEF Holds
    <2>3. file[m + Size] = [event |-> d, part |-> Separator]
      BY <2>1, <2>2
    <2>4. m + Size # b
      BY <1>4, <2>3
    <2>5. m + Size + 1 \in 1 .. Len(file) /\ (m + Size + 1) - 1 = m + Size
          /\ m + Size + 1 <= b
      BY <1>3, <1>7, <1>9, <2>4, Numbers
    <2>6. m + Size + 1 \in LineStarts(file)
      BY <2>3, <2>5 DEF LineStarts
    <2>7. m + Size + 1 <= m
      BY <1>6, <2>5, <2>6
    <2> QED BY <1>7, <2>7, Numbers
  <1>10. ASSUME Holds(file, m, d, Size), m + Size - 1 = b PROVE FALSE
    <2>1. ReadsTo(file, m, Len(file))
      BY <1>3, <1>7, ReadingIs DEF Readable
    <2>2. PICK f \in Events :
           \/ Holds(file, m, f, Separator)
           \/ m + Size - 1 = Len(file)
      BY <2>1 DEF ReadsTo
    <2>3. m + Size - 1 # Len(file)
      BY <1>3, <1>7, <1>10, Numbers
    <2>4. Separator \in 1 .. Separator /\ m + Separator - 1 = b + 1 /\ 1 \in 1 .. Separator
          /\ Separator # 1
      BY <1>3, <1>7, <1>10, Numbers
    <2>5. file[m + Separator - 1] = [event |-> f, part |-> Separator]
      BY <2>2, <2>3, <2>4 DEF Holds
    <2>6. file[b + 1] = [event |-> e, part |-> 1]
      BY <1>3, <2>4
    <2>7. file[b + 1] = [event |-> f, part |-> Separator]
      BY <2>4, <2>5
    <2> QED BY <2>4, <2>6, <2>7
  <1> QED BY <1>8, <1>9, <1>10

\* What a caller is told of stands on a line of its own.
LEMMA Projecting ==
  ASSUME Inv, NEW w \in Writers, Project(w) PROVE Inv'
  <1>1. /\ pc[w] = "project" /\ Release(w) /\ UNCHANGED disk
        /\ failures' = failures /\ losses' = losses
        /\ acknowledged' = IF Readable(file) THEN acknowledged \union {event[w]}
                           ELSE acknowledged
    BY DEF Project
  <1>2. /\ Appends(w) /\ lock = w
        /\ \A v \in Writers : v # w => pc[v] = "idle"
    BY <1>1, Alone
  <1>3. PICK e, b : e = event[w] /\ b = Base(w)
    OBVIOUS
  <1>4. /\ file \in Seq(Pieces) /\ Len(file) \in Nat /\ b \in Nat /\ Len(file) = b + Separator
        /\ e \in Events /\ named /\ durable = Len(file)
        /\ Cardinality({s \in LineStarts(file) : s <= b}) = e.sequence
    <2>1. file \in Seq(Pieces) /\ Len(file) \in Nat /\ Separator \in Nat
      BY LenProperties, Numbers DEF Inv, TypeOK
    <2>2. written[w] = Separator /\ written[w] <= Len(file)
      BY <1>1, <1>2 DEF Appends
    <2>3. b = Len(file) - Separator
      BY <1>3, <2>2 DEF Base
    <2>4. b \in Nat /\ Len(file) = b + Separator
      BY <2>1, <2>2, <2>3
    <2>5. e \in Events /\ named /\ durable = Len(file)
      BY <1>1, <1>2, <1>3 DEF Appends
    <2>6. Cardinality({s \in LineStarts(file) : s <= b}) = e.sequence
      BY <1>2, <1>3 DEF Appends
    <2> QED BY <2>1, <2>4, <2>5, <2>6
  <1>5. Follow(file, b, e, Separator)
    BY <1>1, <1>2, <1>3, <1>4 DEF Appends, Follow
  <1>6. Separator \in 1 .. Separator /\ Separator \in Nat
    BY Numbers
  <1>7. /\ EndsLine(file, b) => b + 1 \in LineStarts(file)
        /\ Holds(file, b + 1, e, Separator) /\ b + 1 + Size = Len(file)
    BY <1>4, <1>5, <1>6, StartsAfter
  <1>8. AcknowledgedIsDurable'
    <2>1. CASE ~Readable(file)
      BY <1>1, <2>1 DEF Inv, AcknowledgedIsDurable, disk
    <2>2. CASE Readable(file)
      <3>1. b + 1 \in LineStarts(file)
        BY <1>1, <1>3, <1>7, <2>2, ReadableIsApart
      <3>2. {x \in LineStarts(file) : x < b + 1} = {x \in LineStarts(file) : x <= b}
        <4>1. \A x \in LineStarts(file) : x \in Nat
          BY <1>4, StartsAre
        <4>2. \A x \in Nat : x < b + 1 <=> x <= b
          BY <1>4
        <4> QED BY <4>1, <4>2
      <3>3. LineNumber(file, b + 1) = e.sequence + 1
        BY <1>4, <3>2 DEF LineNumber
      <3>4. Demanded(file, b + 1, e)
        BY <1>4, <3>3 DEF Demanded, Events
      <3>5. b + 1 + Size <= durable
        BY <1>4, <1>7
      <3>6. \E s \in LineStarts(file) :
               Demanded(file, s, e) /\ Holds(file, s, e, Separator) /\ s + Size <= durable
        BY <1>7, <3>1, <3>4, <3>5
      <3>7. acknowledged' = acknowledged \union {e}
        BY <1>1, <1>3, <2>2
      <3> QED BY <1>1, <1>4, <3>6, <3>7 DEF Inv, AcknowledgedIsDurable, disk
    <2> QED BY <2>1, <2>2
  <1>9. Undisturbed'
    <2>1. EndsLine(file, Len(file))
      <3>1. file[b + Separator] = [event |-> e, part |-> Separator]
        BY <1>5, <1>6 DEF Follow
      <3>2. file[Len(file)] = [event |-> e, part |-> Separator]
        BY <1>4, <3>1
      <3> QED BY <3>2 DEF EndsLine
    <2>2. \A v \in Writers : pc[v] # "write"
      BY <1>1, <1>2
    <2> QED BY <1>1, <2>1, <2>2 DEF Inv, Undisturbed, disk
  <1>10. acknowledged' \subseteq Events
    BY <1>1, <1>3, <1>4 DEF Inv, TypeOK
  <1> QED BY <1>1, <1>8, <1>9, <1>10, Releasing DEF Inv, TypeOK

\* A file that is cut off keeps the lines that are followed by another.
LEMMA LosingPower ==
  ASSUME Inv, PowerLoss PROVE Inv'
  <1>1. /\ losses < MaxLosses /\ losses' = losses + 1 /\ lock' = None
        /\ pc' = [w \in Writers |-> "idle"] /\ event' = [w \in Writers |-> None]
        /\ written' = [w \in Writers |-> 0]
        /\ requested' = requested /\ acknowledged' = acknowledged /\ failures' = failures
    BY DEF PowerLoss
  <1>2. PICK kept \in (durable .. Len(file)) \union (IF named THEN {} ELSE {0}) :
          /\ file' = SubSeq(file, 1, kept) /\ durable' = kept
          /\ named' = (named \/ kept > 0)
    BY DEF PowerLoss
  <1>3. /\ file \in Seq(Pieces) /\ Len(file) \in Nat /\ durable \in 0 .. Len(file)
        /\ kept \in 0 .. Len(file) /\ (named => durable <= kept)
    BY <1>2, LenProperties DEF Inv, TypeOK
  <1>4. /\ file' \in Seq(Pieces) /\ Len(file') = kept
        /\ \A i \in 1 .. kept : file'[i] = file[i]
    <2>1. \A i \in 1 .. kept : file[i] \in Pieces
      BY <1>3, ElementOfSeq
    <2>2. /\ SubSeq(file, 1, kept) \in Seq(Pieces)
          /\ Len(SubSeq(file, 1, kept)) = IF 1 <= kept THEN kept - 1 + 1 ELSE 0
          /\ \A i \in 1 .. kept - 1 + 1 : SubSeq(file, 1, kept)[i] = file[1 + i - 1]
      BY <1>3, <2>1, SubSeqProperties
    <2> QED BY <1>2, <1>3, <2>2
  <1>5. TypeOK'
    <2>1. 0 \in 0 .. Separator /\ losses' \in 0 .. MaxLosses /\ kept \in 0 .. Len(file')
          /\ named' \in BOOLEAN
      BY <1>1, <1>2, <1>3, <1>4, Numbers DEF Inv, TypeOK
    <2>2. /\ pc' \in [Writers -> Steps] /\ event' \in [Writers -> Events \union {None}]
          /\ written' \in [Writers -> 0 .. Separator]
      BY <1>1, <2>1 DEF Steps
    <2> QED BY <1>1, <1>2, <1>4, <2>1, <2>2 DEF Inv, TypeOK
  <1>6. HoldsLock' /\ AppendersKnow'
    BY <1>1, FileBounds DEF HoldsLock, AppendersKnow
  <1>7. OnlyTheLastIsDamaged'
    <2> SUFFICES ASSUME NEW s \in LineStarts(file'), NEW t \in LineStarts(file'), s < t
                 PROVE  Whole(file', s)
      BY DEF OnlyTheLastIsDamaged
    <2>1. s \in 1 .. kept /\ t \in 1 .. kept
      BY <1>4, StartsAre
    <2>2. kept \in Nat /\ kept <= Len(file) /\ kept <= Len(file')
      BY <1>3, <1>4
    <2>3. s \in LineStarts(file) /\ t \in LineStarts(file)
      BY <1>3, <1>4, <2>1, <2>2, StartsAgree
    <2>4. PICK e \in Events : Demanded(file, s, e) /\ Holds(file, s, e, Separator)
      BY <2>3 DEF Inv, OnlyTheLastIsDamaged, Whole
    <2>5. s + Size < t
      BY <1>3, <2>3, <2>4, NoStartInside
    <2>6. s + Separator - 1 <= kept /\ Separator \in Nat /\ s \in 1 .. kept + 1
      BY <1>3, <2>1, <2>5, Numbers
    <2>7. Demanded(file', s, e)
      BY <1>3, <1>4, <2>2, <2>4, <2>6, StartsAgree
    <2>8. Holds(file', s, e, Separator)
      BY <1>3, <1>4, <2>1, <2>2, <2>4, <2>6, StartsAgree
    <2> QED BY <2>7, <2>8 DEF Whole
  <1>8. NothingUnasked'
    <2> SUFFICES ASSUME ~requested PROVE file' = <<>>
      BY <1>1 DEF NothingUnasked
    <2>1. file = <<>>
      BY DEF Inv, NothingUnasked
    <2>2. kept = 0
      BY <1>3, <2>1, EmptySeq
    <2> QED BY <1>4, <2>2, EmptySeq
  <1>9. Undisturbed'
    <2>1. losses \in Nat /\ failures \in Nat
      BY DEF Inv, TypeOK
    <2>2. failures' + losses' # 0
      BY <1>1, <2>1
    <2> QED BY <2>2 DEF Undisturbed
  <1>10. AcknowledgedIsDurable'
    <2>1. CASE acknowledged = {}
      BY <1>1, <2>1 DEF AcknowledgedIsDurable
    <2>2. CASE acknowledged # {}
      <3>1. named
        BY <2>2 DEF Inv, AcknowledgedIsDurable
      <3>2. /\ durable \in Nat /\ durable <= Len(file) /\ kept \in Nat /\ durable <= kept
            /\ kept <= Len(file) /\ kept <= Len(file')
            /\ durable' \in Nat /\ durable <= durable' /\ (named => named')
        <4>1. durable \in Nat /\ durable <= Len(file) /\ kept \in Nat /\ kept <= Len(file)
              /\ durable <= kept
          BY <1>3, <3>1
        <4>2. durable' = kept /\ named'
          BY <1>2, <3>1
        <4>3. kept <= Len(file')
          BY <1>4, <4>1
        <4> QED BY <4>1, <4>2, <4>3
      <3> QED BY <1>1, <1>3, <1>4, <3>2, KeptAgree DEF Inv
    <2> QED BY <2>1, <2>2
  <1>11. NothingBehindATornLine'
    <2> SUFFICES ASSUME NEW n \in 1 .. kept - 1 PROVE Follows(file'[n], file'[n + 1])
      BY <1>4 DEF NothingBehindATornLine
    <2>1. n \in 1 .. Len(file) - 1 /\ n \in 1 .. kept /\ n + 1 \in 1 .. kept
      BY <1>3
    <2>2. Follows(file[n], file[n + 1])
      BY <2>1 DEF Inv, NothingBehindATornLine
    <2> QED BY <1>4, <2>1, <2>2
  <1> QED BY <1>5, <1>6, <1>7, <1>8, <1>9, <1>10, <1>11 DEF Inv

LEMMA StepInv == Inv /\ [Next]_vars => Inv'
  <1> SUFFICES ASSUME Inv, [Next]_vars PROVE Inv'
    OBVIOUS
  <1>1. ASSUME NEW w \in Writers, Create(w) \/ Prepare(w) PROVE Inv'
    BY <1>1, Creating, Preparing
  <1>2. ASSUME NEW w \in Writers, Continue(w) PROVE Inv'
    BY <1>2, Writing, Syncing, Projecting, Abandoning DEF Continue
  <1>3. CASE PowerLoss
    BY <1>3, LosingPower
  <1>4. CASE UNCHANGED vars
    <2>1. /\ file' = file /\ durable' = durable /\ named' = named /\ requested' = requested
          /\ lock' = lock /\ pc' = pc /\ event' = event /\ written' = written
          /\ acknowledged' = acknowledged /\ failures' = failures /\ losses' = losses
      BY <1>4 DEF vars, disk
    <2>2. \A w \in Writers : Appends(w) => Appends(w)'
      BY <2>1 DEF Appends, Base
    <2> QED BY <2>1, <2>2 DEF Inv, TypeOK, HoldsLock, AppendersKnow, OnlyTheLastIsDamaged,
           NothingBehindATornLine, NothingUnasked, Undisturbed, AcknowledgedIsDurable
  <1> QED BY <1>1, <1>2, <1>3, <1>4 DEF Next

----------------------------------------------------------------------------
\* The inductive invariant holds in every reachable state.
THEOREM InvHolds == Spec => []Inv
  <1>1. Init => Inv
    BY InitInv
  <1>2. Inv /\ [Next]_vars => Inv'
    BY StepInv
  <1> QED BY <1>1, <1>2, PTL DEF Spec

\* The file holds pieces of events and the disk no more of them than the file.
THEOREM JournalFileTypes == Spec => []TypeOK
  <1>1. Inv => TypeOK
    BY DEF Inv
  <1> QED BY <1>1, InvHolds, PTL

\* However often an append is interrupted or the power lost, all lines but the
\* last can be read, and nothing stands behind an event that was cut short.
THEOREM LinesStayWhole == Spec => []DamageIsTheLastLine
  <1>1. Inv => DamageIsTheLastLine
    <2> SUFFICES ASSUME Inv PROVE DamageIsTheLastLine
      OBVIOUS
    <2>1. file \in Seq(Pieces)
      BY DEF Inv, TypeOK
    <2>2. ASSUME NEW s \in LineStarts(file), NEW t \in LineStarts(file), s < t
          PROVE  LineReads(file, s)
      <3>1. PICK e \in Events : Demanded(file, s, e) /\ Holds(file, s, e, Separator)
        BY <2>2 DEF Inv, OnlyTheLastIsDamaged, Whole
      <3>2. s \in Nat /\ s + Separator - 1 = s + Size
        BY <2>1, StartsAre, Numbers
      <3>3. s + Size <= Len(file)
        BY <3>1, <3>2 DEF Holds
      <3> QED BY <2>1, <3>1, <3>3, ReadingIs DEF ReadsTo
    <2>3. \A n \in 1 .. Len(file) - 1 : Follows(file[n], file[n + 1])
      BY DEF Inv, NothingBehindATornLine
    <2> QED BY <2>2, <2>3 DEF DamageIsTheLastLine
  <1> QED BY <1>1, InvHolds, PTL

\* An event whose append was answered for stays in its place for good.
THEOREM AnsweredAppendsStay == Spec => []AcknowledgedIsKept
  <1>1. Inv => AcknowledgedIsKept
    <2> SUFFICES ASSUME Inv, NEW e \in acknowledged
                 PROVE  \E s \in LineStarts(file) :
                           /\ LineNumber(file, s) = e.sequence + 1
                           /\ LineFrom(file, s) = LineOf(e)
      BY DEF AcknowledgedIsKept
    <2>1. file \in Seq(Pieces) /\ e \in Events
      BY DEF Inv, TypeOK
    <2>2. PICK s \in LineStarts(file) : Demanded(file, s, e) /\ Holds(file, s, e, Separator)
      BY DEF Inv, AcknowledgedIsDurable
    <2>3. LineFrom(file, s) = LineOf(e)
      BY <2>1, <2>2, WholeLineIs
    <2>4. LineNumber(file, s) = e.sequence + 1
      BY <2>1, <2>2, StartsAre DEF Demanded
    <2> QED BY <2>3, <2>4
  <1> QED BY <1>1, InvHolds, PTL

\* Where nothing failed and no power was lost, a reader is refused only while a
\* line is being written.
THEOREM RefusalsHaveACause == Spec => []RefusedForACause
  <1>1. Inv => RefusedForACause
    <2> SUFFICES ASSUME Inv, \A w \in Writers : pc[w] # "write", ~(failures + losses > 0)
                 PROVE  Readable(file)
      BY DEF RefusedForACause
    <2>1. failures \in Nat /\ losses \in Nat /\ file \in Seq(Pieces)
      BY DEF Inv, TypeOK
    <2>2. failures + losses = 0
      BY <2>1
    <2>3. \A s \in LineStarts(file) : ReadsTo(file, s, Len(file))
      BY <2>2 DEF Inv, Undisturbed
    <2> QED BY <2>1, <2>3, ReadingIs DEF Readable
  <1> QED BY <1>1, InvHolds, PTL
=============================================================================
