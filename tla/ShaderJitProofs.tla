-------------------------- MODULE ShaderJitProofs ----------------------------
(***************************************************************************)
(* Theorems about AirParser and ShaderJit, for every set of files.  A loop *)
(* that reads is a recursive function: LoopType carries a set that each    *)
(* turn stays in from the first turn to the last, and the lemmas after it  *)
(* use it for one kind of read after the other.  ParserKeeps is the step   *)
(* of the parser, BindingsAre the walk of the transformer.                 *)
(***************************************************************************)
EXTENDS ShaderJit, WellFoundedInduction, SequenceTheorems, FiniteSetTheorems, TLAPS

\* A position is never behind the word in which the body ends.
Words == 32 * ((Len(Body(input)) + 31) \div 32)

Op     == [kind : {"literal", "fixed", "vbr", "array", "char6", "blob"}, arg : Nat]
Local  == [i : Nat \ {0}, values : Seq(Nat), blob : Seq(Nat)]

Failures == {"UnexpectedEof", "Malformed"}
              \cup {e \in {"panic"} : Len(Body(input)) % 32 # 0}

\* What a read returns that should return a member of V.
Res(V) == [v : V, p : 0 .. Words, e : {""}] \cup [v : {0}, p : 0 .. Words, e : Failures]

BodyOK == Body(input) \in Seq({0, 1})

-----------------------------------------------------------------------------
LEMMA Least ==
  ASSUME NEW T \in SUBSET Nat, T # {}
  PROVE  \E x \in T : \A y \in T : x <= y
<1>1. PICK x \in T : \A y \in T : ~(<<y, x>> \in OpToRel(<, Nat))
  BY WFMin, NatLessThanWellFounded, Zenon
<1>2. \A y \in T : ~(y < x)
  BY <1>1 DEF OpToRel
<1> QED BY <1>2

\* Induction up to n over a set of numbers.
LEMMA UpTo ==
  ASSUME NEW n \in Nat, NEW T \in SUBSET Nat, 0 \in T,
         \A k \in 1 .. n : k - 1 \in T => k \in T
  PROVE  n \in T
<1> SUFFICES ASSUME n \notin T PROVE FALSE  OBVIOUS
<1> DEFINE U == {k \in 0 .. n : k \notin T}
<1>1. U \in SUBSET Nat /\ U # {}
  OBVIOUS
<1>2. PICK k \in U : \A y \in U : k <= y
  BY <1>1, Least
<1>3. k \in 1 .. n /\ k - 1 \in 0 .. n /\ ~(k <= k - 1)
  BY <1>2
<1>4. k - 1 \in T
  BY <1>2, <1>3
<1> QED BY <1>2, <1>3, <1>4

Rounds(f, n, S, base, step) ==
  f \in [0 .. n -> S] /\ f[0] = base /\ \A k \in 1 .. n : f[k] = step[k][f[k - 1]]

\* A loop of n rounds that stays in S, as a recursive function, has a solution.
LEMMA LoopExists ==
  ASSUME NEW n \in Nat, NEW S, NEW base \in S, NEW step \in [1 .. n -> [S -> S]]
  PROVE  \E f : Rounds(f, n, S, base, step)
<1> DEFINE Solves(f, m) == f[0] = base /\ \A k \in 1 .. m : f[k] = step[k][f[k - 1]]
           T == {m \in 0 .. n : \E f \in [0 .. m -> S] : Solves(f, m)}
<1>1. 0 \in T
  <2> DEFINE g == [k \in 0 .. 0 |-> base]
  <2>1. g \in [0 .. 0 -> S] /\ Solves(g, 0)
    OBVIOUS
  <2> HIDE DEF g, Solves
  <2> QED BY <2>1
<1>2. ASSUME NEW m \in 1 .. n, m - 1 \in T PROVE m \in T
  <2>1. PICK f \in [0 .. m - 1 -> S] : Solves(f, m - 1)
    BY <1>2
  <2> DEFINE g == [k \in 0 .. m |-> IF k = m THEN step[m][f[m - 1]] ELSE f[k]]
  <2>2. f[m - 1] \in S /\ step[m] \in [S -> S]
    OBVIOUS
  <2>3. g \in [0 .. m -> S]
    BY <2>2
  <2>4. g[0] = base
    BY <2>1
  <2>5. \A k \in 1 .. m : g[k] = step[k][g[k - 1]]
    BY <2>1
  <2> HIDE DEF g
  <2>6. Solves(g, m)
    BY <2>4, <2>5
  <2> HIDE DEF Solves
  <2> QED BY <2>3, <2>6
<1>3. n \in T
  <2>1. T \in SUBSET Nat
    OBVIOUS
  <2> HIDE DEF T
  <2> QED BY <1>1, <1>2, <2>1, UpTo
<1>4. PICK f \in [0 .. n -> S] : Solves(f, n)
  BY <1>3
<1>5. Rounds(f, n, S, base, step)
  BY <1>4 DEF Rounds
<1> QED BY <1>5, Zenon

\* And what is a solution stays in S.
Turns(f, n, S, base, step) ==
  f[0] = base /\ \A k \in 1 .. n : f[k - 1] \in S => f[k] = step[k][f[k - 1]]

LEMMA LoopType ==
  ASSUME NEW n \in Nat, NEW S, NEW base \in S, NEW step \in [1 .. n -> [S -> S]],
         NEW f, Turns(f, n, S, base, step)
  PROVE  f[n] \in S
<1> DEFINE T == {k \in 0 .. n : f[k] \in S}
<1>1. 0 \in T
  BY DEF Turns
<1>2. ASSUME NEW k \in 1 .. n, k - 1 \in T PROVE k \in T
  <2>1. k \in 0 .. n /\ f[k - 1] \in S /\ f[k] = step[k][f[k - 1]]
    BY <1>2 DEF Turns
  <2> QED BY <2>1
<1>3. T \in SUBSET Nat
  OBVIOUS
<1>4. n \in T
  <2> HIDE DEF T
  <2> QED BY <1>1, <1>2, <1>3, UpTo
<1> QED BY <1>4

-----------------------------------------------------------------------------
\* Results of reads.

LEMMA WordsAre ==
  ASSUME BodyOK
  PROVE  /\ Len(Body(input)) \in Nat /\ Words \in Nat /\ Len(Body(input)) <= Words
         /\ Len(Body(input)) % 32 = 0 => Words = Len(Body(input))
         /\ \A p \in 0 .. Words : 32 * ((p + 31) \div 32) \in 0 .. Words
<1>1. PICK n \in Nat : n = Len(Body(input))
  BY DEF BodyOK
<1>2. Words = 32 * ((n + 31) \div 32)
  BY <1>1, Zenon DEF Words
<1>3. PICK w \in Nat : w = (n + 31) \div 32
  OBVIOUS
<1>4. n <= 32 * w /\ (n % 32 = 0 => 32 * w = n)
  BY <1>3
<1>5. ASSUME NEW p \in 0 .. 32 * w PROVE 32 * ((p + 31) \div 32) \in 0 .. 32 * w
  OBVIOUS
<1> QED BY <1>1, <1>2, <1>3, <1>4, <1>5

LEMMA ResultIs ==
  ASSUME NEW V, NEW r \in Res(V)
  PROVE  /\ r = [v |-> r.v, p |-> r.p, e |-> r.e] /\ r.p \in 0 .. Words
         /\ r.e = "" => r.v \in V
         /\ r.e # "" => r.e \in Failures /\ r.v = 0
<1> QED BY DEF Res, Failures

LEMMA NumberIs ==
  ASSUME NEW r \in Res(Nat)
  PROVE  r.v \in Nat
<1>1. CASE r \in [v : Nat, p : 0 .. Words, e : {""}]
  BY <1>1
<1>2. CASE r \in [v : {0}, p : 0 .. Words, e : Failures]
  <2>1. r.v = 0
    BY <1>2
  <2> QED BY <2>1
<1> QED BY <1>1, <1>2 DEF Res

LEMMA ResultOf ==
  ASSUME NEW V, NEW p \in 0 .. Words
  PROVE  /\ \A v \in V : [v |-> v, p |-> p, e |-> ""] \in Res(V)
         /\ \A e \in Failures : [v |-> 0, p |-> p, e |-> e] \in Res(V)
<1> QED BY DEF Res

LEMMA FailedAny ==
  ASSUME NEW V, NEW U, NEW r \in Res(V), r.e # ""
  PROVE  r \in Res(U)
<1>1. r \in [v : {0}, p : 0 .. Words, e : Failures]
  BY DEF Res
<1> QED BY <1>1 DEF Res

LEMMA GiveType ==
  ASSUME NEW V, NEW U, NEW r \in Res(V), NEW x, r.e = "" => x \in U
  PROVE  Give(r, x) \in Res(U)
<1>1. CASE r.e = ""
  BY <1>1, ResultIs DEF Give, Res
<1>2. CASE r.e # ""
  BY <1>2, FailedAny DEF Give
<1> QED BY <1>1, <1>2

LEMMA ErrType ==
  ASSUME NEW V, NEW U, NEW r \in Res(V), NEW e \in Failures
  PROVE  Err(r, e) \in Res(U)
<1>1. r.p \in 0 .. Words
  BY ResultIs
<1> QED BY <1>1 DEF Err, Res

LEMMA AlignType ==
  ASSUME BodyOK, NEW V, NEW r \in Res(V)
  PROVE  /\ Align32(r) \in Res(V)
         /\ Align32(r).e = r.e /\ Align32(r).v = r.v
<1>1. 32 * ((r.p + 31) \div 32) \in 0 .. Words
  BY ResultIs, WordsAre
<1>2. PICK w \in 0 .. Words : w = 32 * ((r.p + 31) \div 32)
  BY <1>1
<1>3. Align32(r) = [r EXCEPT !.p = w]
  BY <1>2, Zenon DEF Align32
<1>4. CASE r \in [v : V, p : 0 .. Words, e : {""}]
  BY <1>3, <1>4 DEF Res
<1>5. CASE r \in [v : {0}, p : 0 .. Words, e : Failures]
  BY <1>3, <1>5 DEF Res
<1> QED BY <1>4, <1>5 DEF Res

LEMMA BitsType ==
  ASSUME BodyOK, NEW p \in Nat, NEW n \in Nat, p + n <= Len(Body(input)), NEW skip
  PROVE  BitsAt(p, n, skip) \in Nat
<1> DEFINE Turn(k, x) == IF (n - k + 1) % skip = 0 THEN x
                         ELSE Body(input)[p + n - k + 1] + 2 * x
           Solution(h) == h = [k \in 0 .. n |->
                                 IF k = 0 THEN 0
                                 ELSE IF (n - k + 1) % skip = 0 THEN h[k - 1]
                                 ELSE Body(input)[p + n - k + 1] + 2 * h[k - 1]]
           f == CHOOSE h : Solution(h)
           step == [k \in 1 .. n |-> [x \in Nat |-> Turn(k, x)]]
<1>1. BitsAt(p, n, skip) = f[n]
  BY Zenon DEF BitsAt
<1>2. ASSUME NEW k \in 1 .. n, NEW x \in Nat PROVE Turn(k, x) \in Nat
  <2>1. p + n - k + 1 \in 1 .. Len(Body(input))
    OBVIOUS
  <2>2. Body(input)[p + n - k + 1] \in Nat
    BY <2>1 DEF BodyOK
  <2> QED BY <2>2
<1> HIDE DEF Turn
<1>3. 0 \in Nat /\ step \in [1 .. n -> [Nat -> Nat]]
  BY <1>2
<1>4. \A k \in 1 .. n, x \in Nat : step[k][x] = Turn(k, x)
  OBVIOUS
<1> HIDE DEF step
<1>5. Solution(f)
  <2>1. PICK h : Rounds(h, n, Nat, 0, step)
    BY <1>3, LoopExists, Zenon
  <2>2. ASSUME NEW k \in 1 .. n PROVE h[k] = Turn(k, h[k - 1])
    BY <1>4, <2>1 DEF Rounds
  <2>3. h = [k \in 0 .. n |-> IF k = 0 THEN 0 ELSE Turn(k, h[k - 1])]
    BY <2>1, <2>2 DEF Rounds
  <2>4. Solution(h)
    BY <2>3, Zenon DEF Turn
  <2> QED BY <2>4, Zenon
<1>6. f = [k \in 0 .. n |-> IF k = 0 THEN 0 ELSE Turn(k, f[k - 1])]
  BY <1>5, Zenon DEF Turn
<1> HIDE DEF f
<1>7. Turns(f, n, Nat, 0, step)
  BY <1>4, <1>6 DEF Turns
<1> QED BY <1>1, <1>3, <1>7, LoopType, Zenon

LEMMA ReadBitsType ==
  ASSUME BodyOK, NEW V, NEW r \in Res(V), NEW n, NEW skip
  PROVE  ReadBits(r, n, skip) \in Res(Nat)
<1>0. PICK len \in Nat, w \in Nat :
        /\ len = Len(Body(input)) /\ w = Words /\ len <= w /\ r.p \in 0 .. w
        /\ len % 32 = 0 => w = len
  BY WordsAre, ResultIs
<1>1. CASE r.e # ""
  BY <1>1, FailedAny DEF ReadBits
<1>2. CASE r.e = "" /\ n = 0
  <2>1. Give(r, 0) \in Res(Nat)
    BY GiveType
  <2> QED BY <1>2, <2>1 DEF ReadBits
<1>3. CASE r.e = "" /\ n # 0 /\ r.p > Len(Body(input))
  <2>1. Len(Body(input)) % 32 # 0
    <3>1. PICK p \in 0 .. w : p = r.p
      BY <1>0
    <3>2. p > len
      BY <1>0, <1>3, <3>1, Zenon
    <3>3. len % 32 # 0
      BY <1>0, <3>2
    <3> QED BY <1>0, <3>3, Zenon
  <2>2. "panic" \in Failures
    BY <2>1 DEF Failures
  <2>3. Err(r, "panic") \in Res(Nat)
    BY <2>2, ErrType
  <2> QED BY <1>3, <2>3 DEF ReadBits
<1>4. CASE r.e = "" /\ n # 0 /\ ~(r.p > Len(Body(input)))
             /\ n \notin 0 .. Len(Body(input)) - r.p
  <2>1. Err(r, "UnexpectedEof") \in Res(Nat)
    BY ErrType DEF Failures
  <2> QED BY <1>4, <2>1 DEF ReadBits
<1>5. CASE r.e = "" /\ n # 0 /\ ~(r.p > Len(Body(input)))
             /\ n \in 0 .. Len(Body(input)) - r.p
  <2>1. /\ r.p \in Nat /\ n \in Nat /\ r.p + n <= Len(Body(input))
        /\ r.p + n \in 0 .. Words
    <3>1. PICK p \in 0 .. w : p = r.p
      BY <1>0
    <3>2. ~(p > len) /\ n \in 0 .. len - p
      BY <1>0, <1>5, <3>1, Zenon
    <3>3. p \in Nat /\ n \in Nat /\ p + n <= len /\ p + n \in 0 .. w
      BY <1>0, <3>2
    <3> QED BY <1>0, <3>1, <3>3, Zenon
  <2>2. BitsAt(r.p, n, skip) \in Nat
    BY <2>1, BitsType
  <2>3. [v |-> BitsAt(r.p, n, skip), p |-> r.p + n, e |-> ""] \in Res(Nat)
    BY <2>1, <2>2, ResultOf
  <2> QED BY <1>5, <2>3 DEF ReadBits
<1> QED BY <1>1, <1>2, <1>3, <1>4, <1>5

LEMMA ReadType ==
  ASSUME BodyOK, NEW V, NEW r \in Res(V), NEW n
  PROVE  Read(r, n) \in Res(Nat) /\ ReadVbr(r, n) \in Res(Nat)
<1> QED BY ReadBitsType DEF Read, ReadVbr

LEMMA AbbrevOpType ==
  ASSUME BodyOK, NEW V, NEW r \in Res(V)
  PROVE  ReadAbbrevOp(r) \in Res(Op)
<1> DEFINE literal  == Read(r, 1)
           value    == ReadVbr(literal, 8)
           encoding == Read(literal, 3)
           width    == IF encoding.v \in 1 .. 2 THEN ReadVbr(encoding, 5) ELSE Give(encoding, 0)
<1>1. literal \in Res(Nat)
  BY ReadType
<1>2. value \in Res(Nat) /\ encoding \in Res(Nat)
  <2> HIDE DEF literal
  <2> QED BY <1>1, ReadType
<1>3. width \in Res(Nat)
  <2> HIDE DEF encoding
  <2>1. ReadVbr(encoding, 5) \in Res(Nat)
    BY <1>2, ReadType
  <2>2. Give(encoding, 0) \in Res(Nat)
    BY <1>2, GiveType
  <2> QED BY <2>1, <2>2
<1>4. ReadAbbrevOp(r) =
        IF literal.v = 1 THEN Give(value, [kind |-> "literal", arg |-> value.v])
        ELSE IF encoding.e = "" /\ encoding.v \notin DOMAIN Encodings
        THEN Err(encoding, "Malformed")
        ELSE IF encoding.e # "" THEN encoding
        ELSE Give(width, [kind |-> Encodings[encoding.v], arg |-> width.v])
  BY Zenon DEF ReadAbbrevOp
<1> HIDE DEF literal, value, encoding, width
<1>5. Give(value, [kind |-> "literal", arg |-> value.v]) \in Res(Op)
  <2>1. value.e = "" => [kind |-> "literal", arg |-> value.v] \in Op
    BY <1>2, ResultIs DEF Op
  <2> QED BY <1>2, <2>1, GiveType
<1>6. Err(encoding, "Malformed") \in Res(Op)
  BY <1>2, ErrType DEF Failures
<1>7. encoding.e # "" => encoding \in Res(Op)
  BY <1>2, FailedAny
<1>8. ASSUME encoding.v \in DOMAIN Encodings
      PROVE  Give(width, [kind |-> Encodings[encoding.v], arg |-> width.v]) \in Res(Op)
  <2>1. Encodings[encoding.v] \in {"literal", "fixed", "vbr", "array", "char6", "blob"}
    BY <1>8 DEF Encodings
  <2>2. width.e = "" => width.v \in Nat
    BY <1>3, ResultIs
  <2>3. width.e = "" => [kind |-> Encodings[encoding.v], arg |-> width.v] \in Op
    BY <2>1, <2>2 DEF Op
  <2> QED BY <1>3, <2>3, GiveType
<1> QED BY <1>4, <1>5, <1>6, <1>7, <1>8

LEMMA FailedOpStays ==
  ASSUME BodyOK, NEW V, NEW x \in Res(V), x.e # ""
  PROVE  ReadAbbrevOp(x) = x
<1>1. x.v = 0
  BY ResultIs
<1>2. \A n : Read(x, n) = x /\ ReadVbr(x, n) = x /\ Give(x, n) = x
  BY DEF Read, ReadVbr, ReadBits, Give
<1> QED BY <1>1, <1>2 DEF ReadAbbrevOp

LEMMA ScalarType ==
  ASSUME BodyOK, NEW V, NEW r \in Res(V), NEW op \in Op
  PROVE  ReadScalar(r, op) \in Res(Nat)
<1>1. CASE r.e # ""
  BY <1>1, FailedAny DEF ReadScalar
<1>2. CASE r.e = ""
  <2>1. Give(r, op.arg) \in Res(Nat)
    BY GiveType DEF Op
  <2>2. Read(r, op.arg) \in Res(Nat) /\ ReadVbr(r, op.arg) \in Res(Nat) /\ Read(r, 6) \in Res(Nat)
    BY ReadType
  <2>3. Err(r, "Malformed") \in Res(Nat)
    BY ErrType DEF Failures
  <2> QED BY <1>2, <2>1, <2>2, <2>3 DEF ReadScalar
<1> QED BY <1>1, <1>2

\* One more value for a sequence of members of U.
LEMMA AppendType ==
  ASSUME NEW U, NEW s \in Seq(U), NEW x \in U
  PROVE  Append(s, x) \in Seq(U)
<1> QED OBVIOUS

LEMMA MoreType ==
  ASSUME NEW U, NEW some \in Res(Seq(U)), NEW one \in Res(U),
         some.e # "" => one.e # ""
  PROVE  Give(one, Append(some.v, one.v)) \in Res(Seq(U))
<1>1. ASSUME one.e = "" PROVE Append(some.v, one.v) \in Seq(U)
  <2>1. some.v \in Seq(U) /\ one.v \in U
    BY <1>1, ResultIs
  <2> QED BY <2>1, AppendType, Zenon
<1> QED BY <1>1, GiveType

LEMMA ManyType ==
  ASSUME BodyOK, NEW V, NEW r \in Res(V), NEW n \in Nat, NEW op \in Op,
         NEW values, Give(r, values) \in Res(Seq(Nat))
  PROVE  ReadMany(r, n, op, values) \in Res(Seq(Nat))
<1> DEFINE Turn(x) == LET one == ReadScalar(x, op) IN Give(one, Append(x.v, one.v))
           Solution(h) == h = [k \in 0 .. n |->
                                 IF k = 0 THEN Give(r, values)
                                 ELSE LET some == h[k - 1]
                                          one  == ReadScalar(some, op)
                                      IN Give(one, Append(some.v, one.v))]
           f == CHOOSE h : Solution(h)
           S == Res(Seq(Nat))
           step == [k \in 1 .. n |-> [x \in S |-> Turn(x)]]
<1>1. ReadMany(r, n, op, values) = f[n]
  BY Zenon DEF ReadMany
<1>2. Give(r, values) \in S
  OBVIOUS
<1>3. ASSUME NEW x \in S PROVE Turn(x) \in S
  <2>1. ReadScalar(x, op) \in Res(Nat)
    BY ScalarType
  <2>2. x.e # "" => ReadScalar(x, op).e # ""
    BY DEF ReadScalar
  <2> QED BY <2>1, <2>2, MoreType
<1> HIDE DEF S
<1> HIDE DEF Turn
<1>4. step \in [1 .. n -> [S -> S]]
  BY <1>3
<1>5. \A k \in 1 .. n, x \in S : step[k][x] = Turn(x)
  OBVIOUS
<1> HIDE DEF step
<1>6. Solution(f)
  <2>1. PICK h : Rounds(h, n, S, Give(r, values), step)
    BY <1>2, <1>4, LoopExists, Zenon
  <2>2. ASSUME NEW k \in 1 .. n PROVE h[k] = Turn(h[k - 1])
    BY <1>5, <2>1 DEF Rounds
  <2>3. h = [k \in 0 .. n |-> IF k = 0 THEN Give(r, values) ELSE Turn(h[k - 1])]
    BY <2>1, <2>2 DEF Rounds
  <2>4. Solution(h)
    BY <2>3, Zenon DEF Turn
  <2> QED BY <2>4, Zenon
<1>7. f = [k \in 0 .. n |-> IF k = 0 THEN Give(r, values) ELSE Turn(f[k - 1])]
  BY <1>6, Zenon DEF Turn
<1> HIDE DEF f
<1>8. Turns(f, n, S, Give(r, values), step)
  BY <1>5, <1>7 DEF Turns
<1> QED BY <1>1, <1>2, <1>4, <1>8, LoopType, Zenon DEF S

LEMMA AbbrevDefType ==
  ASSUME BodyOK, NEW V, NEW r \in Res(V)
  PROVE  ReadAbbrevDef(r) \in Res(Seq(Op))
<1>0. PICK num_ops \in Res(Nat) : num_ops = ReadVbr(r, 5)
  BY ReadType
<1>n. PICK n \in Nat : n = num_ops.v
  BY ResultIs
<1> DEFINE Turn(x) == LET op == ReadAbbrevOp(x) IN Give(op, Append(x.v, op.v))
           Solution(h) == h = [k \in 0 .. n |->
                                 IF k = 0 THEN Give(num_ops, <<>>)
                                 ELSE LET ops == h[k - 1]
                                          op  == ReadAbbrevOp(ops)
                                      IN Give(op, Append(ops.v, op.v))]
           f == CHOOSE h : Solution(h)
           S == Res(Seq(Op))
           step == [k \in 1 .. n |-> [x \in S |-> Turn(x)]]
<1>1. ReadAbbrevDef(r) = f[n]
  BY <1>0, <1>n, Zenon DEF ReadAbbrevDef
<1>2. Give(num_ops, <<>>) \in S
  <2>1. <<>> \in Seq(Op)
    OBVIOUS
  <2> QED BY <2>1, GiveType
<1>3. ASSUME NEW x \in S PROVE Turn(x) \in S
  <2>1. ReadAbbrevOp(x) \in Res(Op)
    BY AbbrevOpType
  <2>2. x.e # "" => ReadAbbrevOp(x).e # ""
    BY FailedOpStays
  <2> QED BY <2>1, <2>2, MoreType
<1> HIDE DEF S
<1> HIDE DEF Turn
<1>4. step \in [1 .. n -> [S -> S]]
  BY <1>3
<1>5. \A k \in 1 .. n, x \in S : step[k][x] = Turn(x)
  OBVIOUS
<1> HIDE DEF step
<1>6. Solution(f)
  <2>1. PICK h : Rounds(h, n, S, Give(num_ops, <<>>), step)
    BY <1>2, <1>4, LoopExists, Zenon
  <2>2. ASSUME NEW k \in 1 .. n PROVE h[k] = Turn(h[k - 1])
    BY <1>5, <2>1 DEF Rounds
  <2>3. h = [k \in 0 .. n |-> IF k = 0 THEN Give(num_ops, <<>>) ELSE Turn(h[k - 1])]
    BY <2>1, <2>2 DEF Rounds
  <2>4. Solution(h)
    BY <2>3, Zenon DEF Turn
  <2> QED BY <2>4, Zenon
<1>7. f = [k \in 0 .. n |-> IF k = 0 THEN Give(num_ops, <<>>) ELSE Turn(f[k - 1])]
  BY <1>6, Zenon DEF Turn
<1> HIDE DEF f
<1>8. Turns(f, n, S, Give(num_ops, <<>>), step)
  BY <1>5, <1>7 DEF Turns
<1> QED BY <1>1, <1>2, <1>4, <1>8, LoopType, Zenon DEF S

LEMMA OperandType ==
  ASSUME BodyOK, NEW ops \in Seq(Op), NEW r \in Res(Local)
  PROVE  ReadOperand(r, ops) \in Res(Local)
<1>1. CASE r.e # "" \/ r.v.i > Len(ops)
  BY <1>1 DEF ReadOperand
<1>2. CASE ~(r.e # "" \/ r.v.i > Len(ops))
  <2>1. PICK i \in Nat \ {0}, values \in Seq(Nat), blob \in Seq(Nat) :
          i = r.v.i /\ values = r.v.values /\ blob = r.v.blob
    <3>1. r.v \in Local
      BY <1>2, ResultIs
    <3> QED BY <3>1 DEF Local
  <2>2. i \in 1 .. Len(ops)
    <3>1. PICK len \in Nat : len = Len(ops)
      OBVIOUS
    <3>2. ~(i > len)
      BY <1>2, <2>1, <3>1, Zenon
    <3>3. i \in 1 .. len
      BY <3>2
    <3> QED BY <3>1, <3>3, Zenon
  <2> DEFINE op    == ops[r.v.i]
             count == ReadVbr(r, 6)
             byte  == [kind |-> "fixed", arg |-> 8]
             elems == ReadMany(count, count.v, ops[r.v.i + 1], r.v.values)
             bytes == ReadMany(Align32(count), count.v, byte, r.v.blob)
             one   == ReadScalar(r, op)
             AfterArray  == [i |-> r.v.i + 2, values |-> elems.v, blob |-> r.v.blob]
             AfterBlob   == [i |-> r.v.i + 1, values |-> r.v.values, blob |-> bytes.v]
             AfterScalar == [i |-> r.v.i + 1, values |-> Append(r.v.values, one.v),
                             blob |-> r.v.blob]
  <2>3. /\ op.kind = "array" =>
             ReadOperand(r, ops) = IF count.e # "" THEN count
                                   ELSE IF r.v.i = Len(ops) THEN Err(count, "Malformed")
                                   ELSE Give(elems, AfterArray)
        /\ op.kind = "blob" => ReadOperand(r, ops) = Give(Align32(bytes), AfterBlob)
        /\ op.kind # "array" /\ op.kind # "blob" => ReadOperand(r, ops) = Give(one, AfterScalar)
    BY <1>2 DEF ReadOperand
  <2>4. op \in Op /\ count \in Res(Nat)
    <3>1. ops[i] \in Op
      BY <2>2
    <3> QED BY <2>1, <3>1, ReadType
  <2> HIDE DEF op, count
  <2>5. count.v \in Nat
    BY <2>4, NumberIs, Zenon
  <2>6. CASE op.kind = "array"
    <3>1. count.e # "" => count \in Res(Local)
      BY <2>4, FailedAny
    <3>2. Err(count, "Malformed") \in Res(Local)
      BY <2>4, ErrType DEF Failures
    <3>3. ASSUME count.e = "", r.v.i # Len(ops) PROVE Give(elems, AfterArray) \in Res(Local)
      <4>1. ops[r.v.i + 1] \in Op
        <5>1. PICK len \in Nat : len = Len(ops)
          OBVIOUS
        <5>2. i \in 1 .. len /\ i # len
          BY <2>1, <2>2, <3>3, <5>1, Zenon
        <5>3. i + 1 \in 1 .. len
          BY <5>2
        <5>4. i + 1 \in 1 .. Len(ops)
          BY <5>1, <5>3, Zenon
        <5>5. ops[i + 1] \in Op
          BY <5>4
        <5> QED BY <2>1, <5>5, Zenon
      <4>2. Give(count, r.v.values) \in Res(Seq(Nat))
        BY <2>1, <2>4, GiveType
      <4>3. elems \in Res(Seq(Nat))
        BY <2>4, <2>5, <4>1, <4>2, ManyType
      <4> HIDE DEF elems
      <4>4. elems.e = "" => AfterArray \in Local
        <5>1. elems.e = "" => elems.v \in Seq(Nat)
          BY <4>3, ResultIs
        <5>2. i + 2 \in Nat \ {0}
          OBVIOUS
        <5> QED BY <2>1, <5>1, <5>2 DEF Local
      <4> HIDE DEF AfterArray
      <4> QED BY <4>3, <4>4, GiveType
    <3> QED BY <2>3, <2>6, <3>1, <3>2, <3>3
  <2>7. CASE op.kind = "blob"
    <3>1. Align32(count) \in Res(Nat)
      BY <2>4, AlignType
    <3>2. byte \in Op
      BY DEF Op
    <3>3. Give(Align32(count), r.v.blob) \in Res(Seq(Nat))
      BY <2>1, <3>1, GiveType
    <3>4. bytes \in Res(Seq(Nat))
      BY <2>5, <3>1, <3>2, <3>3, ManyType
    <3> HIDE DEF bytes
    <3>5. Align32(bytes) \in Res(Seq(Nat)) /\ Align32(bytes).e = bytes.e
      BY <3>4, AlignType
    <3>6. bytes.e = "" => AfterBlob \in Local
      <4>1. bytes.e = "" => bytes.v \in Seq(Nat)
        BY <3>4, ResultIs
      <4>2. i + 1 \in Nat \ {0}
        OBVIOUS
      <4> QED BY <2>1, <4>1, <4>2 DEF Local
    <3> HIDE DEF AfterBlob
    <3>7. Give(Align32(bytes), AfterBlob) \in Res(Local)
      BY <3>5, <3>6, GiveType
    <3> QED BY <2>3, <2>7, <3>7
  <2>8. CASE op.kind # "array" /\ op.kind # "blob"
    <3>1. one \in Res(Nat)
      BY <2>4, ScalarType
    <3> HIDE DEF one
    <3>2. one.e = "" => AfterScalar \in Local
      <4>1. one.e = "" => Append(values, one.v) \in Seq(Nat)
        <5>1. one.v \in Nat
          BY <3>1, NumberIs, Zenon
        <5> QED BY <5>1, AppendType, Zenon
      <4>2. i + 1 \in Nat \ {0}
        OBVIOUS
      <4> QED BY <2>1, <4>1, <4>2 DEF Local
    <3> HIDE DEF AfterScalar
    <3>3. Give(one, AfterScalar) \in Res(Local)
      BY <3>1, <3>2, GiveType
    <3> QED BY <2>3, <2>8, <3>3
  <2> QED BY <2>6, <2>7, <2>8
<1> QED BY <1>1, <1>2

LEMMA OperandsType ==
  ASSUME BodyOK, NEW V, NEW r \in Res(V), NEW ops \in Seq(Op)
  PROVE  ReadOperands(r, ops) \in Res(Local)
<1>n. PICK n \in Nat : n = Len(ops)
  OBVIOUS
<1> DEFINE start == Give(r, [i |-> 1, values |-> <<>>, blob |-> <<>>])
           Solution(h) == h = [k \in 0 .. n |->
                                 IF k = 0 THEN start ELSE ReadOperand(h[k - 1], ops)]
           f == CHOOSE h : Solution(h)
           S == Res(Local)
           step == [k \in 1 .. n |-> [x \in S |-> ReadOperand(x, ops)]]
<1>1. ReadOperands(r, ops) = f[n]
  BY <1>n, Zenon DEF ReadOperands
<1>2. start \in S
  <2>1. [i |-> 1, values |-> <<>>, blob |-> <<>>] \in Local
    BY DEF Local
  <2> QED BY <2>1, GiveType
<1>3. ASSUME NEW x \in S PROVE ReadOperand(x, ops) \in S
  BY OperandType
<1> HIDE DEF S, start
<1>4. step \in [1 .. n -> [S -> S]]
  BY <1>3
<1>5. \A k \in 1 .. n, x \in S : step[k][x] = ReadOperand(x, ops)
  OBVIOUS
<1> HIDE DEF step
<1>6. Solution(f)
  <2>1. PICK h : Rounds(h, n, S, start, step)
    BY <1>2, <1>4, LoopExists, Zenon
  <2>2. ASSUME NEW k \in 1 .. n PROVE h[k] = ReadOperand(h[k - 1], ops)
    BY <1>5, <2>1 DEF Rounds
  <2>3. Solution(h)
    BY <2>1, <2>2 DEF Rounds
  <2> QED BY <2>3, Zenon
<1> HIDE DEF f
<1>7. Turns(f, n, S, start, step)
  BY <1>5, <1>6 DEF Turns
<1> QED BY <1>1, <1>2, <1>4, <1>7, LoopType, Zenon DEF S

-----------------------------------------------------------------------------
\* The parser.

Record == [code : Nat, operands : Seq(Nat), blob : Seq(Nat)]
Block  == [id : Nat, width : Nat, depth : Nat, records : Seq(Record)]
Frame  == [id : Nat, width : Nat, at : Nat, abbrevs : Seq(Seq(Op)), setbid : SUBSET Nat]

InputOK  == input.bits \in Seq({0, 1}) /\ input.wrapped \in BOOLEAN /\ input.size \in Nat
InfoOK   == \A id \in DOMAIN blockinfo : blockinfo[id] \in Seq(Seq(Op))
StatusOK ==
  /\ status \in {"idle", "NotLocated", "parsing", "done", "UnexpectedEof", "Malformed", "panic"}
  /\ status \notin {"idle", "NotLocated"} => Located(input)
  /\ status = "parsing" => pos \in 0 .. Words
  /\ status = "panic" => Len(Body(input)) % 32 # 0

ParserOK == InputOK /\ InfoOK /\ StatusOK /\ stack \in Seq(Frame) /\ blocks \in Seq(Block)

LEMMA BodyOf ==
  ASSUME NEW in, in.bits \in Seq({0, 1}), in.wrapped \in BOOLEAN, in.size \in Nat, Located(in)
  PROVE  Body(in) \in Seq({0, 1})
<1>1. CASE ~in.wrapped
  BY <1>1 DEF Body
<1>2. CASE in.wrapped
  <2>1. PICK bits \in Seq({0, 1}), size \in Nat, len \in Nat :
          bits = in.bits /\ size = in.size /\ len = Len(bits)
    OBVIOUS
  <2>2. size * 8 <= 32 + len /\ size >= 4
    BY <1>2, <2>1 DEF Located
  <2>3. PICK n \in 0 .. len : n = 8 * (size - 4)
    BY <2>2
  <2>4. SubSeq(bits, 1, n) \in Seq({0, 1})
    <3>1. n \in 1 - 1 .. Len(bits) /\ 1 \in 1 .. Len(bits) + 1
      BY <2>1
    <3> QED BY <3>1, SubSeqProperties
  <2>5. Body(in) = SubSeq(bits, 1, n)
    BY <1>2, <2>1, <2>3, Zenon DEF Body
  <2> QED BY <2>4, <2>5
<1> QED BY <1>1, <1>2

LEMMA BodyIs ==
  ASSUME InputOK, Located(input)
  PROVE  BodyOK
<1> QED BY BodyOf, Zenon DEF InputOK, BodyOK

LEMMA ParsingIs ==
  ASSUME ParserOK, status = "parsing"
  PROVE  BodyOK /\ pos \in 0 .. Words /\ Abbrev \in Res(Nat)
<1>1. BodyOK /\ pos \in 0 .. Words
  BY BodyIs DEF ParserOK, StatusOK
<1>2. At(pos) \in Res(Nat)
  BY <1>1, ResultOf DEF At
<1>3. Read(At(pos), 2) \in Res(Nat) /\ Read(At(pos), Top.width) \in Res(Nat)
  BY <1>1, <1>2, ReadType
<1> QED BY <1>1, <1>3 DEF Abbrev

\* A turn of a loop goes well or not.
LEMMA Moves ==
  ASSUME ParserOK, status = "parsing", UNCHANGED <<input, status>>, pos' \in 0 .. Words,
         InfoOK', stack' \in Seq(Frame), blocks' \in Seq(Block)
  PROVE  ParserOK'
<1>1. InputOK'
  BY DEF ParserOK, InputOK
<1>2. Words' = Words /\ Located(input')
  BY DEF ParserOK, StatusOK, Words
<1>3. StatusOK'
  BY <1>2 DEF StatusOK
<1> QED BY <1>1, <1>3 DEF ParserOK

LEMMA Stops ==
  ASSUME ParserOK, status = "parsing", NEW e \in Failures \cup {"done"}, Fails(e)
  PROVE  ParserOK' /\ status' \notin {"idle", "parsing"} /\ input' = input
<1>1. /\ status' = e /\ UNCHANGED <<input, pos, stack, blockinfo, blocks>>
      /\ e \in {"done", "UnexpectedEof", "Malformed", "panic"}
      /\ e = "panic" => Len(Body(input)) % 32 # 0
  BY DEF Fails, Failures
<1>2. InputOK' /\ InfoOK' /\ stack' \in Seq(Frame) /\ blocks' \in Seq(Block)
  BY <1>1 DEF ParserOK, InputOK, InfoOK
<1>3. StatusOK'
  BY <1>1 DEF ParserOK, StatusOK
<1> QED BY <1>1, <1>2, <1>3 DEF ParserOK

\* What every step of the parser does.
Parses == ParserOK' /\ status' # "idle" /\ input' = input

LEMMA OrErrorKeeps ==
  ASSUME ParserOK, status = "parsing", NEW V, NEW r \in Res(V), r.e # "", Fails(r.e)
  PROVE  Parses
<1>1. r.e \in Failures
  BY ResultIs
<1> QED BY <1>1, Stops DEF Parses

LEMMA InfosType ==
  ASSUME InfoOK, NEW id
  PROVE  Infos(id) \in Seq(Seq(Op))
<1> QED BY DEF InfoOK, Infos

LEMMA EnterKeeps ==
  ASSUME ParserOK, status = "parsing", Enter
  PROVE  Parses
<1> DEFINE id     == ReadVbr(Abbrev, 8)
           width  == ReadVbr(id, 4)
           length == Read(Align32(width), 32)
           block  == [id |-> id.v, width |-> width.v, depth |-> Len(stack), records |-> <<>>]
           frame  == [id |-> id.v, width |-> width.v, at |-> Len(blocks) + 1,
                      abbrevs |-> Infos(id.v), setbid |-> {}]
           Then   == /\ stack' = Append(stack, frame) /\ blocks' = Append(blocks, block)
                     /\ UNCHANGED blockinfo
<1>1. OrError(length, Then)
  BY Zenon DEF Enter
<1>2. BodyOK /\ Abbrev \in Res(Nat)
  BY ParsingIs
<1>3. id \in Res(Nat)
  BY <1>2, ReadType
<1> HIDE DEF id
<1>4. width \in Res(Nat)
  BY <1>2, <1>3, ReadType
<1> HIDE DEF width
<1>5. Align32(width) \in Res(Nat)
  BY <1>2, <1>4, AlignType
<1>6. length \in Res(Nat)
  BY <1>2, <1>5, ReadType
<1> HIDE DEF length
<1>7. id.v \in Nat /\ width.v \in Nat
  BY <1>3, <1>4, NumberIs, Zenon
<1>8. CASE length.e # ""
  <2>1. Fails(length.e)
    BY <1>1, <1>8 DEF OrError
  <2> QED BY <1>6, <1>8, <2>1, OrErrorKeeps
<1>9. CASE length.e = ""
  <2>1. /\ UNCHANGED <<input, status>> /\ pos' = length.p
        /\ Then
    BY <1>1, <1>9 DEF OrError, Advance
  <2>2. pos' \in 0 .. Words
    BY <1>6, <2>1, ResultIs
  <2>3. block \in Block
    <3>1. Len(stack) \in Nat
      BY DEF ParserOK
    <3>2. <<>> \in Seq(Record)
      OBVIOUS
    <3> QED BY <1>7, <3>1, <3>2 DEF Block
  <2>4. frame \in Frame
    <3>1. Len(blocks) + 1 \in Nat
      BY DEF ParserOK
    <3>2. Infos(id.v) \in Seq(Seq(Op))
      BY InfosType DEF ParserOK
    <3> QED BY <1>7, <3>1, <3>2 DEF Frame
  <2> HIDE DEF block, frame
  <2>5. stack' \in Seq(Frame) /\ blocks' \in Seq(Block)
    BY <2>1, <2>3, <2>4, AppendType DEF ParserOK
  <2>6. InfoOK'
    BY <2>1 DEF ParserOK, InfoOK
  <2>7. ParserOK'
    BY <2>1, <2>2, <2>5, <2>6, Moves
  <2> QED BY <2>1, <2>7 DEF Parses
<1> QED BY <1>8, <1>9

LEMMA TopLevelKeeps ==
  ASSUME ParserOK, TopLevel
  PROVE  Parses
<1>1. status = "parsing"
  BY DEF TopLevel
<1>2. CASE Tail32 < 0
  <2>1. Fails("panic")
    BY <1>2 DEF TopLevel
  <2>2. PICK len \in Nat, w \in Nat, p \in Nat :
          /\ len = Len(Body(input)) /\ w = Words /\ p = pos /\ p <= w
          /\ len % 32 = 0 => w = len
    BY <1>1, ParsingIs, WordsAre
  <2>3. len - p < 0
    BY <1>2, <2>2 DEF Tail32
  <2>4. len % 32 # 0
    BY <2>2, <2>3
  <2>5. "panic" \in Failures
    BY <2>2, <2>4 DEF Failures
  <2> QED BY <1>1, <2>1, <2>5, Stops DEF Parses
<1>3. CASE Fails("done")
  BY <1>1, <1>3, Stops DEF Parses
<1>4. CASE Enter
  BY <1>1, <1>4, EnterKeeps
<1> QED BY <1>2, <1>3, <1>4 DEF TopLevel

LEMMA TopIsThere ==
  ASSUME stack \in Seq(Frame), stack # <<>>
  PROVE  Len(stack) \in 1 .. Len(stack)
<1>1. Len(stack) \in Nat /\ Len(stack) # 0
  OBVIOUS
<1> QED BY <1>1

LEMMA InBlockIs ==
  ASSUME ParserOK, NEW id, InBlock(id)
  PROVE  /\ status = "parsing" /\ Abbrev.e = "" /\ Abbrev.v = id /\ id \in Nat
         /\ Top \in Frame /\ stack # <<>>
<1>1. status = "parsing" /\ stack # <<>> /\ Abbrev.e = "" /\ Abbrev.v = id
  BY DEF InBlock
<1>2. id \in Nat
  <2>1. Abbrev \in Res(Nat)
    BY <1>1, ParsingIs
  <2>2. Abbrev.v \in Nat
    BY <2>1, NumberIs, Zenon
  <2> QED BY <1>1, <2>2
<1>3. stack \in Seq(Frame)
  BY DEF ParserOK
<1>4. Len(stack) \in 1 .. Len(stack)
  BY <1>1, <1>3, TopIsThere
<1>5. Top \in Frame
  BY <1>3, <1>4 DEF Top
<1> QED BY <1>1, <1>2, <1>5

LEMMA SetTopType ==
  ASSUME stack \in Seq(Frame), stack # <<>>, NEW f \in Frame
  PROVE  SetTop(f) \in Seq(Frame)
<1> QED BY TopIsThere, ExceptSeq DEF SetTop

LEMMA EndBlockKeeps ==
  ASSUME ParserOK, EndBlock
  PROVE  Parses
<1>1. InBlock(0) /\ Advance(Align32(Abbrev))
        /\ stack' = SubSeq(stack, 1, Len(stack) - 1) /\ UNCHANGED <<blockinfo, blocks>>
  BY DEF EndBlock
<1>2. status = "parsing" /\ BodyOK /\ Abbrev \in Res(Nat)
  BY <1>1, InBlockIs, ParsingIs
<1>3. Align32(Abbrev) \in Res(Nat)
  BY <1>2, AlignType
<1>4. pos' \in 0 .. Words /\ UNCHANGED <<input, status>>
  BY <1>1, <1>3, ResultIs DEF Advance
<1>5. stack' \in Seq(Frame)
  <2>1. PICK n \in Nat : n = Len(stack)
    BY DEF ParserOK
  <2>2. n - 1 \in Int /\ \A i \in 1 .. n - 1 : stack[i] \in Frame
    BY <2>1 DEF ParserOK
  <2>3. SubSeq(stack, 1, n - 1) \in Seq(Frame)
    BY <2>2, SubSeqProperties
  <2> QED BY <1>1, <2>1, <2>3
<1>6. InfoOK' /\ blocks' \in Seq(Block)
  BY <1>1 DEF ParserOK, InfoOK
<1>7. ParserOK'
  BY <1>2, <1>4, <1>5, <1>6, Moves
<1> QED BY <1>2, <1>4, <1>7 DEF Parses

LEMMA DefineAbbrevKeeps ==
  ASSUME ParserOK, DefineAbbrev
  PROVE  Parses
<1> DEFINE def  == ReadAbbrevDef(Abbrev)
           Info == [id \in DOMAIN blockinfo \cup Top.setbid |->
                      IF id \in Top.setbid THEN Append(Infos(id), def.v) ELSE blockinfo[id]]
<1>1. InBlock(2)
  BY DEF DefineAbbrev
<1>2. status = "parsing" /\ BodyOK /\ Abbrev \in Res(Nat) /\ Top \in Frame /\ stack # <<>>
  BY <1>1, InBlockIs, ParsingIs
<1>3. def \in Res(Seq(Op))
  BY <1>2, AbbrevDefType
<1>4. CASE def.e # ""
  <2>1. Fails(def.e)
    BY <1>4 DEF DefineAbbrev, OrError
  <2> HIDE DEF def
  <2> QED BY <1>2, <1>3, <1>4, <2>1, OrErrorKeeps
<1>5. CASE def.e = ""
  <2>1. /\ pos' = def.p /\ UNCHANGED <<input, status, blocks>>
        /\ Top.id # 0 => /\ stack' = SetTop([Top EXCEPT !.abbrevs = Append(@, def.v)])
                         /\ UNCHANGED blockinfo
        /\ Top.id = 0 => /\ blockinfo' = Info
                         /\ UNCHANGED stack
    BY <1>5 DEF DefineAbbrev, OrError, Advance
  <2> HIDE DEF def
  <2>2. pos' \in 0 .. Words /\ def.v \in Seq(Op)
    BY <1>3, <1>5, <2>1, ResultIs
  <2>3. CASE Top.id # 0
    <3>1. [Top EXCEPT !.abbrevs = Append(@, def.v)] \in Frame
      <4>1. Append(Top.abbrevs, def.v) \in Seq(Seq(Op))
        BY <1>2, <2>2, AppendType DEF Frame
      <4> QED BY <1>2, <4>1 DEF Frame
    <3>2. stack' \in Seq(Frame)
      BY <1>2, <2>1, <2>3, <3>1, SetTopType DEF ParserOK
    <3>3. InfoOK' /\ blocks' \in Seq(Block)
      BY <2>1, <2>3 DEF ParserOK, InfoOK
    <3>4. ParserOK'
      BY <1>2, <2>1, <2>2, <3>2, <3>3, Moves
    <3> QED BY <1>2, <2>1, <3>4 DEF Parses
  <2>4. CASE Top.id = 0
    <3>1. ASSUME NEW id \in DOMAIN Info PROVE Info[id] \in Seq(Seq(Op))
      <4>1. Append(Infos(id), def.v) \in Seq(Seq(Op))
        <5>1. Infos(id) \in Seq(Seq(Op))
          BY InfosType DEF ParserOK
        <5> QED BY <2>2, <5>1, AppendType
      <4>2. id \notin Top.setbid => blockinfo[id] \in Seq(Seq(Op))
        BY DEF ParserOK, InfoOK
      <4> QED BY <4>1, <4>2
    <3> HIDE DEF Info
    <3>2. InfoOK' /\ blocks' \in Seq(Block) /\ stack' \in Seq(Frame)
      BY <2>1, <2>4, <3>1 DEF ParserOK, InfoOK
    <3>3. ParserOK'
      BY <1>2, <2>1, <2>2, <3>2, Moves
    <3> QED BY <1>2, <2>1, <3>3 DEF Parses
  <2> QED BY <2>3, <2>4
<1> QED BY <1>4, <1>5

LEMMA AddRecordType ==
  ASSUME blocks \in Seq(Block), NEW code \in Nat, NEW operands \in Seq(Nat),
         NEW blob \in Seq(Nat), AddRecord(code, operands, blob)
  PROVE  blocks' \in Seq(Block)
<1> DEFINE record == [code |-> code, operands |-> operands, blob |-> blob]
           at     == Top.at
           block  == [blocks[at] EXCEPT !.records = Append(blocks[at].records, record)]
<1>1. blocks' = [blocks EXCEPT ![at] = block]
  BY DEF AddRecord
<1>2. CASE at \in 1 .. Len(blocks)
  <2>1. PICK b \in Block : b = blocks[at]
    BY <1>2
  <2>2. record \in Record
    BY DEF Record
  <2> HIDE DEF record
  <2>3. Append(b.records, record) \in Seq(Record)
    BY <2>2, AppendType DEF Block
  <2>4. [b EXCEPT !.records = Append(b.records, record)] \in Block
    BY <2>3 DEF Block
  <2>5. block \in Block
    BY <2>1, <2>4
  <2> HIDE DEF block, at
  <2>6. [blocks EXCEPT ![at] = block] \in Seq(Block)
    BY <1>2, <2>5, ExceptSeq
  <2> QED BY <1>1, <2>6
<1>3. CASE at \notin 1 .. Len(blocks)
  <2>1. at \notin DOMAIN blocks
    BY <1>3
  <2> HIDE DEF at, block
  <2>2. [blocks EXCEPT ![at] = block] = blocks
    BY <2>1
  <2> QED BY <1>1, <2>2
<1> QED BY <1>2, <1>3

LEMMA UnabbrevRecordKeeps ==
  ASSUME ParserOK, UnabbrevRecord
  PROVE  Parses
<1> DEFINE code   == ReadVbr(Abbrev, 6)
           count  == ReadVbr(code, 6)
           item   == [kind |-> "vbr", arg |-> 6]
           ops    == ReadMany(count, count.v, item, <<>>)
           target == {ops.v[k] : k \in DOMAIN ops.v \cap {1}}
           NewTop == [Top EXCEPT !.setbid = target]
           Then   == /\ AddRecord(code.v, ops.v, <<>>)
                     /\ stack' = IF Top.id = 0 /\ code.v = 1 THEN SetTop(NewTop) ELSE stack
                     /\ UNCHANGED blockinfo
<1>1. InBlock(3) /\ OrError(ops, Then)
  BY Zenon DEF UnabbrevRecord
<1>2. status = "parsing" /\ BodyOK /\ Abbrev \in Res(Nat) /\ Top \in Frame /\ stack # <<>>
  BY <1>1, InBlockIs, ParsingIs
<1>3. code \in Res(Nat)
  BY <1>2, ReadType
<1> HIDE DEF code
<1>4. count \in Res(Nat)
  BY <1>2, <1>3, ReadType
<1> HIDE DEF count
<1>5. code.v \in Nat /\ count.v \in Nat
  BY <1>3, <1>4, NumberIs, Zenon
<1>6. ops \in Res(Seq(Nat))
  <2>1. item \in Op
    BY DEF Op
  <2>2. <<>> \in Seq(Nat)
    OBVIOUS
  <2>3. Give(count, <<>>) \in Res(Seq(Nat))
    BY <1>4, <2>2, GiveType
  <2> HIDE DEF item
  <2> QED BY <1>2, <1>4, <1>5, <2>1, <2>3, ManyType
<1> HIDE DEF ops
<1>7. CASE ops.e # ""
  <2>1. Fails(ops.e)
    BY <1>1, <1>7 DEF OrError
  <2> QED BY <1>2, <1>6, <1>7, <2>1, OrErrorKeeps
<1>8. CASE ops.e = ""
  <2>1. pos' = ops.p /\ UNCHANGED <<input, status>> /\ Then
    BY <1>1, <1>8 DEF OrError, Advance
  <2>2. pos' \in 0 .. Words /\ ops.v \in Seq(Nat)
    BY <1>6, <1>8, <2>1, ResultIs
  <2>3. NewTop \in Frame
    <3>1. target \in SUBSET Nat
      BY <2>2
    <3> HIDE DEF target
    <3> QED BY <1>2, <3>1 DEF Frame
  <2>4. SetTop(NewTop) \in Seq(Frame)
    <3> HIDE DEF NewTop
    <3> QED BY <1>2, <2>3, SetTopType DEF ParserOK
  <2> HIDE DEF NewTop
  <2>5. stack' \in Seq(Frame)
    BY <2>1, <2>4 DEF ParserOK
  <2>6. blocks' \in Seq(Block)
    <3>1. <<>> \in Seq(Nat)
      OBVIOUS
    <3> QED BY <1>5, <2>1, <2>2, <3>1, AddRecordType DEF ParserOK
  <2>7. InfoOK'
    BY <2>1 DEF ParserOK, InfoOK
  <2>8. ParserOK'
    BY <1>2, <2>1, <2>2, <2>5, <2>6, <2>7, Moves
  <2> QED BY <1>2, <2>1, <2>8 DEF Parses
<1> QED BY <1>7, <1>8

LEMMA AbbreviatedRecordKeeps ==
  ASSUME ParserOK, AbbreviatedRecord
  PROVE  Parses
<1> DEFINE n      == Abbrev.v - 3
           all    == ReadOperands(Abbrev, Top.abbrevs[n])
           values == all.v.values
           code   == IF values = <<>> THEN 0 ELSE values[1]
           rest   == SubSeq(values, 2, Len(values))
           Then   == AddRecord(code, rest, all.v.blob) /\ UNCHANGED <<stack, blockinfo>>
<1>1. /\ InBlock(Abbrev.v) /\ Abbrev.v > 3
      /\ IF n > Len(Top.abbrevs) THEN Fails("Malformed") ELSE OrError(all, Then)
  BY Zenon DEF AbbreviatedRecord
<1>2. status = "parsing" /\ BodyOK /\ Abbrev \in Res(Nat) /\ Top \in Frame
  BY <1>1, InBlockIs, ParsingIs
<1>3. CASE Fails("Malformed")
  BY <1>2, <1>3, Stops DEF Parses, Failures
<1>4. CASE ~(n > Len(Top.abbrevs)) /\ OrError(all, Then)
  <2>1. Top.abbrevs[n] \in Seq(Op)
    <3>1. PICK abbrevs \in Seq(Seq(Op)), len \in Nat : abbrevs = Top.abbrevs /\ len = Len(abbrevs)
      BY <1>2 DEF Frame
    <3>2. PICK a \in Nat : a = Abbrev.v
      BY <1>2, NumberIs
    <3>3. a > 3 /\ ~(a - 3 > len)
      BY <1>1, <1>4, <3>1, <3>2
    <3>4. a - 3 \in 1 .. len
      BY <3>3
    <3>5. abbrevs[a - 3] \in Seq(Op)
      BY <3>1, <3>4
    <3> QED BY <3>1, <3>2, <3>5
  <2>2. all \in Res(Local)
    <3> HIDE DEF n
    <3> QED BY <1>2, <2>1, OperandsType
  <2> HIDE DEF all
  <2>3. CASE all.e # ""
    <3>1. Fails(all.e)
      BY <1>4, <2>3 DEF OrError
    <3> QED BY <1>2, <2>2, <2>3, <3>1, OrErrorKeeps
  <2>4. CASE all.e = ""
    <3>1. pos' = all.p /\ UNCHANGED <<input, status>> /\ Then
      BY <1>4, <2>4 DEF OrError, Advance
    <3>2. pos' \in 0 .. Words /\ all.v \in Local
      BY <2>2, <2>4, <3>1, ResultIs
    <3>3. values \in Seq(Nat) /\ all.v.blob \in Seq(Nat)
      BY <3>2 DEF Local
    <3> HIDE DEF values
    <3>4. code \in Nat
      BY <3>3
    <3>5. rest \in Seq(Nat)
      <4>1. PICK len \in Nat : len = Len(values)
        BY <3>3
      <4>2. 2 \in Int /\ len \in Int /\ \A i \in 2 .. len : values[i] \in Nat
        BY <3>3, <4>1
      <4>3. SubSeq(values, 2, len) \in Seq(Nat)
        BY <4>2, SubSeqProperties
      <4> QED BY <4>1, <4>3
    <3> HIDE DEF code, rest
    <3>6. blocks' \in Seq(Block)
      BY <3>1, <3>3, <3>4, <3>5, AddRecordType DEF ParserOK
    <3>7. InfoOK' /\ stack' \in Seq(Frame)
      BY <3>1 DEF ParserOK, InfoOK
    <3>8. ParserOK'
      BY <1>2, <3>1, <3>2, <3>6, <3>7, Moves
    <3> QED BY <1>2, <3>1, <3>8 DEF Parses
  <2> QED BY <2>3, <2>4
<1> QED BY <1>1, <1>3, <1>4

LEMMA ParserKeeps ==
  ASSUME ParserOK, ParserNext
  PROVE  Parses
<1>1. CASE EnterSubblock
  BY <1>1, InBlockIs, EnterKeeps DEF EnterSubblock
<1>2. CASE BlockCutOff
  <2>1. status = "parsing" /\ Abbrev.e # "" /\ Fails(Abbrev.e)
    BY <1>2 DEF BlockCutOff
  <2>2. Abbrev \in Res(Nat)
    BY <2>1, ParsingIs
  <2> QED BY <2>1, <2>2, OrErrorKeeps
<1> QED BY <1>1, <1>2, TopLevelKeeps, EndBlockKeeps, DefineAbbrevKeeps,
           UnabbrevRecordKeeps, AbbreviatedRecordKeeps DEF ParserNext

-----------------------------------------------------------------------------
\* The bindings of one file.

LEMMA Below ==
  ASSUME NEW n \in Nat, NEW s, s \subseteq 0 .. n, s # {}
  PROVE  Max(s) \in s /\ \A y \in s : y <= Max(s)
<1> DEFINE T == {n - x : x \in s}
<1>1. T \in SUBSET Nat /\ T # {}
  <2>1. \A x \in s : n - x \in Nat
    OBVIOUS
  <2> QED BY <2>1
<1>2. PICK m \in T : \A y \in T : m <= y
  BY <1>1, Least
<1>3. PICK x \in s : m = n - x
  OBVIOUS
<1>4. \A y \in s : n - x <= n - y
  BY <1>2, <1>3
<1>5. \A y \in s : x >= y
  BY <1>4
<1>6. \A z \in s : (\A y \in s : z >= y) => z = x
  BY <1>5
<1>7. Max(s) = x
  BY <1>5, <1>6 DEF Max
<1> QED BY <1>5, <1>7

LEMMA PlacesFinite ==
  ASSUME blocks \in Seq(Block)
  PROVE  IsFiniteSet(NamedPlaces) /\ NamedPlaces \subseteq Nat \X Nat
<1> DEFINE OfBlock(i) == {i} \X DOMAIN blocks[i].records
           B == {OfBlock(i) : i \in DOMAIN blocks}
           f == [i \in DOMAIN blocks |-> OfBlock(i)]
<1>1. PICK n \in Nat : DOMAIN blocks = 1 .. n
  OBVIOUS
<1>2. ASSUME NEW i \in DOMAIN blocks PROVE IsFiniteSet(OfBlock(i)) /\ OfBlock(i) \subseteq Nat \X Nat
  <2>1. blocks[i].records \in Seq(Record) /\ i \in Nat
    <3>1. blocks[i] \in Block
      BY <1>1
    <3> QED BY <1>1, <3>1 DEF Block
  <2>2. PICK m \in Nat : DOMAIN blocks[i].records = 1 .. m
    BY <2>1
  <2>3. IsFiniteSet(1 .. m) /\ IsFiniteSet({i})
    <3>1. 1 \in Int /\ m \in Int
      OBVIOUS
    <3>2. IsFiniteSet(1 .. m)
      BY <3>1, FS_Interval, Zenon
    <3>3. IsFiniteSet({i})
      BY FS_Singleton, Zenon
    <3> QED BY <3>2, <3>3
  <2>4. IsFiniteSet({i} \X (1 .. m))
    BY <2>3, FS_Product
  <2>5. {i} \X (1 .. m) \subseteq Nat \X Nat
    BY <2>1
  <2> QED BY <2>2, <2>4, <2>5
<1> HIDE DEF OfBlock
<1>3. IsFiniteSet(B)
  <2>1. IsFiniteSet(DOMAIN blocks)
    BY <1>1, FS_Interval
  <2>2. f \in Surjection(DOMAIN blocks, B)
    BY DEF Surjection
  <2> HIDE DEF f, B
  <2> QED BY <2>1, <2>2, FS_Surjection
<1>4. IsFiniteSet(UNION B) /\ UNION B \subseteq Nat \X Nat
  <2>1. \A T \in B : IsFiniteSet(T) /\ T \subseteq Nat \X Nat
    BY <1>2
  <2> HIDE DEF B
  <2>2. IsFiniteSet(UNION B)
    BY <1>3, <2>1, FS_UNION
  <2> QED BY <2>1, <2>2
<1>5. Places = UNION B
  BY Zenon DEF Places, OfBlock
<1> HIDE DEF B
<1>6. NamedPlaces \subseteq UNION B
  BY <1>5 DEF NamedPlaces
<1>7. IsFiniteSet(NamedPlaces)
  BY <1>4, <1>6, FS_Subset
<1> QED BY <1>4, <1>6, <1>7

\* How many named records come before a place.
Earlier(p) == Cardinality({q \in NamedPlaces : Precedes(q, p)})

LEMMA EarlierIs ==
  ASSUME blocks \in Seq(Block)
  PROVE  /\ Cardinality(NamedPlaces) \in Nat
         /\ \A p \in NamedPlaces : Earlier(p) \in 0 .. Cardinality(NamedPlaces) - 1
         /\ \A p \in NamedPlaces, q \in NamedPlaces : p # q => Earlier(p) # Earlier(q)
<1> DEFINE Before(p) == {q \in NamedPlaces : Precedes(q, p)}
<1>1. IsFiniteSet(NamedPlaces) /\ NamedPlaces \subseteq Nat \X Nat
  BY PlacesFinite
<1>2. \A p \in NamedPlaces : p[1] \in Nat /\ p[2] \in Nat /\ p = <<p[1], p[2]>>
  BY <1>1
<1>3. Cardinality(NamedPlaces) \in Nat
  BY <1>1, FS_CardinalityType
<1>4. ASSUME NEW p \in NamedPlaces
      PROVE  IsFiniteSet(Before(p)) /\ Before(p) \in SUBSET NamedPlaces /\ p \notin Before(p)
  <2>1. ~Precedes(p, p)
    BY <1>2 DEF Precedes
  <2>2. Before(p) \in SUBSET NamedPlaces
    OBVIOUS
  <2>3. IsFiniteSet(Before(p))
    BY <1>1, <2>2, FS_Subset
  <2> QED BY <2>1, <2>2, <2>3
<1>5. ASSUME NEW p \in NamedPlaces
      PROVE  Earlier(p) \in 0 .. Cardinality(NamedPlaces) - 1
  <2>1. Before(p) \in SUBSET NamedPlaces /\ IsFiniteSet(Before(p)) /\ Before(p) # NamedPlaces
    BY <1>4
  <2>2. Earlier(p) = Cardinality(Before(p))
    BY Zenon DEF Earlier
  <2> HIDE DEF Before
  <2>3. /\ Cardinality(Before(p)) \in Nat
        /\ Cardinality(Before(p)) <= Cardinality(NamedPlaces)
        /\ Cardinality(Before(p)) # Cardinality(NamedPlaces)
    BY <1>1, <2>1, FS_Subset, FS_CardinalityType
  <2> QED BY <1>3, <2>2, <2>3
<1>6. ASSUME NEW p \in NamedPlaces, NEW q \in NamedPlaces, Precedes(p, q)
      PROVE  Earlier(p) # Earlier(q)
  <2>1. \A x \in NamedPlaces : Precedes(x, p) => Precedes(x, q)
    BY <1>2, <1>6 DEF Precedes
  <2>2. Before(p) \in SUBSET Before(q) /\ p \in Before(q)
    BY <1>6, <2>1
  <2>3. Before(p) # Before(q) /\ IsFiniteSet(Before(q))
    BY <1>4, <2>2
  <2>4. Earlier(p) = Cardinality(Before(p)) /\ Earlier(q) = Cardinality(Before(q))
    BY Zenon DEF Earlier
  <2> HIDE DEF Before
  <2> QED BY <2>2, <2>3, <2>4, FS_Subset
<1>7. ASSUME NEW p \in NamedPlaces, NEW q \in NamedPlaces, p # q
      PROVE  Precedes(p, q) \/ Precedes(q, p)
  BY <1>2, <1>7 DEF Precedes
<1>8. ASSUME NEW p \in NamedPlaces, NEW q \in NamedPlaces, p # q
      PROVE  Earlier(p) # Earlier(q)
  BY <1>6, <1>7, <1>8
<1> QED BY <1>3, <1>5, <1>8

LEMMA BindingsAre ==
  ASSUME blocks \in Seq(Block), counter \in Nat
  PROVE  /\ Cardinality(NamedPlaces) \in Nat
         /\ IsInjective(BindingMap)
         /\ Range(BindingMap) \subseteq counter .. counter + Cardinality(NamedPlaces) - 1
         /\ DOMAIN BindingMap = {RecordAt(p).blob : p \in NamedPlaces}
<1> DEFINE N == Cardinality(NamedPlaces)
           PlacesOf(name) == {q \in NamedPlaces : RecordAt(q).blob = name}
           Bindings(name) == {Binding(p) : p \in PlacesOf(name)}
           NamesSeen      == {RecordAt(p).blob : p \in NamedPlaces}
<1>1. N \in Nat
  BY EarlierIs
<1>2. BindingMap = [name \in NamesSeen |-> Max(Bindings(name))]
  BY Zenon DEF BindingMap
<1>3. \A p \in NamedPlaces : Binding(p) = counter + Earlier(p)
  BY Zenon DEF Binding, Earlier
<1>4. \A p \in NamedPlaces : Binding(p) \in counter .. counter + N - 1
  BY <1>1, <1>3, EarlierIs
<1>5. \A p \in NamedPlaces, q \in NamedPlaces : Binding(p) = Binding(q) => p = q
  <2>1. \A p \in NamedPlaces : Earlier(p) \in Nat
    BY <1>1, EarlierIs
  <2>2. \A p \in NamedPlaces, q \in NamedPlaces : Binding(p) = Binding(q) => Earlier(p) = Earlier(q)
    BY <1>3, <2>1
  <2> QED BY <2>2, EarlierIs
<1> HIDE DEF N
<1>6. ASSUME NEW name \in NamesSeen
      PROVE  \E p \in NamedPlaces : RecordAt(p).blob = name /\ BindingMap[name] = Binding(p)
  <2>1. Bindings(name) \subseteq 0 .. counter + N /\ Bindings(name) # {}
    BY <1>1, <1>4
  <2>2. counter + N \in Nat
    BY <1>1
  <2>3. Max(Bindings(name)) \in Bindings(name)
    <3> HIDE DEF Bindings
    <3> QED BY <2>1, <2>2, Below
  <2>4. BindingMap[name] \in Bindings(name)
    BY <1>2, <2>3
  <2> QED BY <2>4
<1>7. DOMAIN BindingMap = NamesSeen
  BY <1>2
<1>8. IsInjective(BindingMap)
  <2>1. ASSUME NEW a \in NamesSeen, NEW b \in NamesSeen, BindingMap[a] = BindingMap[b]
        PROVE  a = b
    BY <1>5, <1>6, <2>1
  <2> QED BY <1>7, <2>1 DEF IsInjective
<1>9. Range(BindingMap) \subseteq counter .. counter + N - 1
  <2>1. \A name \in NamesSeen : BindingMap[name] \in counter .. counter + N - 1
    BY <1>4, <1>6
  <2> QED BY <1>7, <2>1 DEF Range
<1> QED BY <1>1, <1>7, <1>8, <1>9 DEF N

-----------------------------------------------------------------------------
\* The context.

\* The names for which the walk gives bindings.
Buffers == {RecordAt(p).blob : p \in NamedPlaces}

\* What no file takes from another: the bindings given are all below the counter,
\* and the map is empty while a file is parsed.
JitOK ==
  /\ counter \in Nat
  /\ Range(result.map) \subseteq 0 .. counter - 1
  /\ given \subseteq 0 .. counter - 1
  /\ Range(result.map) \cap given = {}
  /\ IsInjective(result.map)
  /\ status # "idle" => result = NoResult
  /\ status = "idle" /\ compiles > 0 =>
       DOMAIN result.map = IF HasArgumentBuffers THEN Buffers ELSE {}

IInv == ParserOK /\ JitOK

\* The buffers are those of the blocks and of the bytes.
LEMMA SameBuffers ==
  ASSUME UNCHANGED <<input, blocks>>
  PROVE  HasArgumentBuffers' = HasArgumentBuffers /\ Buffers' = Buffers
<1>1. Body(input)' = Body(input)
  BY DEF Body
<1>2. \A p, n, skip : BitsAt(p, n, skip)' = BitsAt(p, n, skip)
  BY <1>1 DEF BitsAt
<1>3. HasArgumentBuffers' = HasArgumentBuffers
  BY <1>1, <1>2 DEF HasArgumentBuffers
<1>4. \A p : RecordAt(p)' = RecordAt(p)
  BY DEF RecordAt
<1>5. Places' = Places
  BY DEF Places
<1>6. NamedPlaces' = NamedPlaces
  BY <1>4, <1>5 DEF NamedPlaces
<1>7. Buffers' = Buffers
  BY <1>4, <1>6 DEF Buffers
<1> QED BY <1>3, <1>7

\* Nothing has a binding yet.
LEMMA NothingBound ==
  /\ Range(NoResult.map) = {} /\ IsInjective(NoResult.map) /\ DOMAIN NoResult.map = {}
<1>1. DOMAIN NoResult.map = {}
  BY DEF NoResult
<1>2. Range(NoResult.map) = {}
  BY <1>1 DEF Range
<1>3. IsInjective(NoResult.map)
  BY <1>1 DEF IsInjective
<1> QED BY <1>1, <1>2, <1>3

LEMMA NoSequence ==
  ASSUME NEW S
  PROVE  <<>> \in Seq(S)
<1> QED OBVIOUS

LEMMA InitOK == Init => IInv
<1> SUFFICES ASSUME Init PROVE IInv  OBVIOUS
<1>1. InputOK
  <2>1. <<>> \in Seq({0, 1})
    BY NoSequence
  <2> QED BY <2>1 DEF Init, InputOK
<1>2. InfoOK /\ stack \in Seq(Frame) /\ blocks \in Seq(Block)
  <2>1. DOMAIN blockinfo = {}
    BY DEF Init
  <2>2. stack = <<>> /\ blocks = <<>>
    BY DEF Init
  <2> QED BY <2>1, <2>2, NoSequence DEF InfoOK
<1>3. StatusOK
  BY DEF Init, StatusOK
<1>4. JitOK
  <2>1. counter = 0 /\ result = NoResult /\ given = {} /\ compiles = 0 /\ status = "idle"
    BY DEF Init
  <2> QED BY <2>1, NothingBound DEF JitOK
<1> QED BY <1>1, <1>2, <1>3, <1>4 DEF IInv, ParserOK

\* A new file begins with an empty map and the counter where it was.
LEMMA CompileKeeps ==
  ASSUME IInv, NEW in \in Inputs, CompileAirToSpirv(in)
  PROVE  IInv'
<1>1. /\ input' = in /\ pos' = 0 /\ stack' = <<>> /\ blockinfo' = <<>> /\ blocks' = <<>>
      /\ status' = IF Located(in) THEN "parsing" ELSE "NotLocated"
  BY DEF CompileAirToSpirv, StartParse
<1>2. InputOK'
  BY <1>1, InputsAssumption DEF InputOK
<1>3. InfoOK' /\ stack' \in Seq(Frame) /\ blocks' \in Seq(Block)
  <2>1. DOMAIN blockinfo' = {}
    BY <1>1
  <2> QED BY <1>1, <2>1, NoSequence DEF InfoOK
<1>4. StatusOK'
  <2>1. status' = "parsing" => Located(input')
    BY <1>1
  <2>2. status' = "parsing" => pos' \in 0 .. Words'
    <3> SUFFICES ASSUME status' = "parsing" PROVE pos' \in 0 .. Words'  OBVIOUS
    <3>1. Body(input') \in Seq({0, 1})
      BY <1>2, <2>1, BodyOf DEF InputOK
    <3>2. PICK len \in Nat : len = Len(Body(input'))
      BY <3>1
    <3>3. Words' = 32 * ((len + 31) \div 32)
      BY <3>2, Zenon DEF Words
    <3> QED BY <1>1, <3>3
  <2> QED BY <1>1, <2>1, <2>2 DEF StatusOK
<1>5. JitOK'
  <2>1. result' = NoResult /\ given' = given \cup Range(result.map) /\ counter' = counter
    BY DEF CompileAirToSpirv
  <2>2. status' # "idle"
    BY <1>1
  <2> QED BY <2>1, <2>2, NothingBound DEF IInv, JitOK
<1> QED BY <1>2, <1>3, <1>4, <1>5 DEF IInv, ParserOK

LEMMA ParserLeavesJit ==
  ASSUME IInv, ParserNext, UNCHANGED jitVars
  PROVE  IInv'
<1>1. ParserOK' /\ status' # "idle"
  BY ParserKeeps DEF IInv, Parses
<1>2. status = "parsing"
  BY DEF ParserNext, TopLevel, EndBlock, EnterSubblock, DefineAbbrev, UnabbrevRecord,
         AbbreviatedRecord, BlockCutOff, InBlock
<1>3. JitOK'
  BY <1>1, <1>2 DEF IInv, JitOK, jitVars
<1> QED BY <1>1, <1>3 DEF IInv

\* The bindings of a file are counter, counter + 1, ...; the counter goes past them.
LEMMA TransformKeeps ==
  ASSUME IInv, TransformModule
  PROVE  IInv'
<1>1. status = "done" /\ status' = "idle"
        /\ UNCHANGED <<input, pos, stack, blockinfo, blocks, given, compiles>>
        /\ result'.map = (IF HasArgumentBuffers THEN BindingMap ELSE <<>>)
        /\ counter' = counter + (IF HasArgumentBuffers THEN Cardinality(NamedPlaces) ELSE 0)
  BY DEF TransformModule
<1>2. ParserOK'
  <2>1. InputOK' /\ InfoOK' /\ stack' \in Seq(Frame) /\ blocks' \in Seq(Block)
    BY <1>1 DEF IInv, ParserOK, InputOK, InfoOK
  <2>2. StatusOK'
    BY <1>1 DEF StatusOK
  <2> QED BY <2>1, <2>2 DEF ParserOK
<1>3. counter \in Nat /\ given \subseteq 0 .. counter - 1
  BY DEF IInv, JitOK
<1>4. HasArgumentBuffers' = HasArgumentBuffers /\ Buffers' = Buffers
  BY <1>1, SameBuffers
<1>5. CASE HasArgumentBuffers
  <2>1. /\ Cardinality(NamedPlaces) \in Nat
        /\ IsInjective(BindingMap)
        /\ Range(BindingMap) \subseteq counter .. counter + Cardinality(NamedPlaces) - 1
        /\ DOMAIN BindingMap = Buffers
    BY <1>3, BindingsAre DEF IInv, ParserOK, Buffers
  <2>2. result'.map = BindingMap /\ counter' = counter + Cardinality(NamedPlaces)
    BY <1>1, <1>5
  <2> DEFINE N == Cardinality(NamedPlaces)
  <2> HIDE DEF N
  <2>3. counter' \in Nat /\ counter' = counter + N /\ N \in Nat
    BY <1>3, <2>1, <2>2 DEF N
  <2>4. Range(result.map)' \subseteq counter .. counter + N - 1
    BY <2>1, <2>2 DEF N
  <2>5. /\ Range(result.map)' \subseteq 0 .. counter' - 1
        /\ given' \subseteq 0 .. counter' - 1
        /\ Range(result.map)' \cap given' = {}
    BY <1>1, <1>3, <2>3, <2>4
  <2>6. IsInjective(result.map)'
    BY <2>1, <2>2
  <2>7. DOMAIN result'.map = IF HasArgumentBuffers' THEN Buffers' ELSE {}
    BY <1>4, <1>5, <2>1, <2>2
  <2>8. JitOK'
    BY <1>1, <2>3, <2>5, <2>6, <2>7 DEF JitOK
  <2> QED BY <1>2, <2>8 DEF IInv
<1>6. CASE ~HasArgumentBuffers
  <2>1. result'.map = NoResult.map /\ counter' = counter
    BY <1>1, <1>3, <1>6 DEF NoResult
  <2>2. JitOK'
    BY <1>1, <1>3, <1>4, <1>6, <2>1, NothingBound DEF JitOK
  <2> QED BY <1>2, <2>2 DEF IInv
<1> QED BY <1>5, <1>6

LEMMA StepKeeps == IInv /\ [Next]_vars => IInv'
<1> SUFFICES ASSUME IInv, [Next]_vars PROVE IInv'  OBVIOUS
<1>1. CASE \E in \in Inputs : CompileAirToSpirv(in)
  BY <1>1, CompileKeeps
<1>2. CASE ParserNext /\ UNCHANGED jitVars
  BY <1>2, ParserLeavesJit
<1>3. CASE TransformModule
  BY <1>3, TransformKeeps
<1>4. CASE UNCHANGED vars
  <2>1. UNCHANGED parserVars /\ UNCHANGED jitVars
    BY <1>4 DEF vars
  <2>2. ParserOK'
    BY <2>1 DEF IInv, ParserOK, InputOK, InfoOK, StatusOK, parserVars, Words, Body, Located
  <2>3. JitOK'
    BY <2>1, SameBuffers DEF IInv, JitOK, parserVars, jitVars
  <2> QED BY <2>2, <2>3 DEF IInv
<1> QED BY <1>1, <1>2, <1>3, <1>4 DEF Next

\* Whatever the bytes of the file, the parser's numbers, blocks and abbreviations are
\* of their kinds, it is never further than the word in which the bit stream ends
\* (BitReader), and the transformer's counter is ahead of every binding it gave.
THEOREM ShaderInvariant == Spec => []IInv
<1> QED BY InitOK, StepKeeps, PTL DEF Spec

\* The parser runs off the end of no file whose bit stream is a whole number of
\* words (BitReader::align32 and bits_remaining), however damaged it is.
THEOREM WholeWordsNeverPanic == Spec => []PanicNeedsPartialWord
<1>1. IInv => PanicNeedsPartialWord
  BY DEF IInv, ParserOK, StatusOK, PanicNeedsPartialWord
<1> QED BY <1>1, ShaderInvariant, PTL

-----------------------------------------------------------------------------
LEMMA NamedBlobs ==
  Buffers =
    {r.blob : r \in {x \in UNION {Range(blocks[k].records) : k \in DOMAIN blocks} : IsNamed(x)}}
<1> DEFINE All == UNION {Range(blocks[k].records) : k \in DOMAIN blocks}
<1>1. ASSUME NEW p \in Places PROVE RecordAt(p) \in All
  <2>1. PICK i \in DOMAIN blocks : p \in {i} \X DOMAIN blocks[i].records
    BY DEF Places
  <2>2. p[1] = i /\ p[2] \in DOMAIN blocks[i].records
    BY <2>1
  <2> QED BY <2>2 DEF RecordAt, Range
<1>2. ASSUME NEW r \in All PROVE \E p \in Places : RecordAt(p) = r
  <2>1. PICK i \in DOMAIN blocks : r \in Range(blocks[i].records)
    OBVIOUS
  <2>2. PICK k \in DOMAIN blocks[i].records : r = blocks[i].records[k]
    BY <2>1 DEF Range
  <2>3. <<i, k>> \in Places
    BY <2>1, <2>2 DEF Places
  <2> QED BY <2>2, <2>3 DEF RecordAt
<1> HIDE DEF All
<1>3. ASSUME NEW p \in NamedPlaces
      PROVE  \E r \in {x \in All : IsNamed(x)} : RecordAt(p).blob = r.blob
  BY <1>1 DEF NamedPlaces
<1>4. ASSUME NEW r \in {x \in All : IsNamed(x)}
      PROVE  \E p \in NamedPlaces : RecordAt(p).blob = r.blob
  BY <1>2 DEF NamedPlaces
<1>5. {RecordAt(p).blob : p \in NamedPlaces} = {r.blob : r \in {x \in All : IsNamed(x)}}
  BY <1>3, <1>4
<1> QED BY <1>5 DEF All, Buffers

LEMMA BindingsOfParsed == IInv => BindingsOf(blocks)
<1> SUFFICES ASSUME IInv PROVE BindingsOf(blocks)  OBVIOUS
<1>1. IsInjective(result.map) /\ Range(result.map) \cap given = {}
  BY DEF IInv, JitOK
<1>2. status = "idle" /\ compiles > 0 =>
        DOMAIN result.map = IF HasArgumentBuffers THEN Buffers ELSE {}
  BY DEF IInv, JitOK
<1> QED BY <1>1, <1>2, NamedBlobs, Zenon DEF BindingsOf

\* After transform_module exactly the argument buffers named in the parsed blocks
\* have bindings, and no two buffers of any of the files have the same one.
THEOREM ParsedBindingsDistinct == Spec => []BindingsOf(blocks)
<1> QED BY BindingsOfParsed, ShaderInvariant, PTL

\* Where the parser is faithful, the bindings are those of the buffers that the
\* file's writer named (AirTransformer.transform_module).
THEOREM WrittenBindingsDistinct == Spec /\ []FaithfulParse => []BindingsDistinct
<1> DEFINE Parsed == status = "idle" /\ compiles > 0 => blocks = Written
<1>1. Init => Parsed
  BY DEF Init
<1>2. IInv /\ FaithfulParse /\ Parsed /\ [Next]_vars => Parsed'
  <2> SUFFICES ASSUME IInv, FaithfulParse, Parsed, [Next]_vars PROVE Parsed'  OBVIOUS
  <2>1. CASE \E in \in Inputs : CompileAirToSpirv(in)
    BY <2>1 DEF CompileAirToSpirv, StartParse
  <2>2. CASE ParserNext /\ UNCHANGED jitVars
    BY <2>2, ParserKeeps DEF IInv, Parses
  <2>3. CASE TransformModule
    <3>1. status = "done" /\ UNCHANGED <<input, blocks>>
      BY <2>3 DEF TransformModule
    <3>2. blocks = Written
      BY <3>1 DEF FaithfulParse
    <3>3. Written' = Written
      BY <3>1 DEF Written, Whole, Body
    <3> QED BY <3>1, <3>2, <3>3
  <2>4. CASE UNCHANGED vars
    BY <2>4 DEF vars, parserVars, jitVars, Written, Whole, Body
  <2> QED BY <2>1, <2>2, <2>3, <2>4 DEF Next
<1>3. Parsed /\ BindingsOf(blocks) => BindingsDistinct
  BY DEF BindingsDistinct, BindingsOf
<1> HIDE DEF Parsed
<1> QED BY <1>1, <1>2, <1>3, ShaderInvariant, ParsedBindingsDistinct, PTL DEF Spec

-----------------------------------------------------------------------------
\* The blocks of a file.

\* The blocks and their depths are those of trees in preorder; the open ones are the
\* ancestors of what comes next, the innermost last.
BlocksNested ==
  /\ \A i \in 1 .. Len(blocks) : blocks[i].depth <= (IF i = 1 THEN 0 ELSE blocks[i - 1].depth + 1)
  /\ stack # <<>> => Len(stack) <= blocks[Len(blocks)].depth + 1
  /\ \A k \in 1 .. Len(stack) :
       /\ stack[k].at \in 1 .. Len(blocks)
       /\ blocks[stack[k].at].depth = k - 1
       /\ blocks[stack[k].at].id = stack[k].id
       /\ \A i \in 1 .. Len(blocks) : i > stack[k].at => blocks[i].depth >= k

\* The length, depths, ids and owners are what BlocksNested looks at.
SameShape ==
  /\ Len(stack') = Len(stack) /\ Len(blocks') = Len(blocks)
  /\ \A i \in 1 .. Len(blocks) : blocks'[i].depth = blocks[i].depth /\ blocks'[i].id = blocks[i].id
  /\ \A k \in 1 .. Len(stack) : stack'[k].at = stack[k].at /\ stack'[k].id = stack[k].id

LEMMA Lengths ==
  ASSUME NEW S, NEW s \in Seq(S)
  PROVE  Len(s) \in Nat /\ (s = <<>> <=> Len(s) = 0)
<1> QED OBVIOUS

LEMMA ShapeKeepsNested ==
  ASSUME ParserOK, ParserOK', BlocksNested, SameShape
  PROVE  BlocksNested'
<1>1. PICK n \in Nat, m \in Nat : n = Len(blocks) /\ m = Len(stack)
  BY Lengths DEF ParserOK
<1>2. Len(blocks') = n /\ Len(stack') = m
  BY <1>1 DEF SameShape
<1>3. (stack' # <<>> => m # 0) /\ (m # 0 => stack # <<>>)
  BY <1>1, <1>2, Lengths DEF ParserOK
<1>4. \A i \in 1 .. n : blocks'[i].depth = blocks[i].depth /\ blocks'[i].id = blocks[i].id
  BY <1>1 DEF SameShape
<1>5. \A i \in 1 .. n :
        blocks'[i].depth <= (IF i = 1 THEN 0 ELSE blocks'[i - 1].depth + 1)
  <2>1. ASSUME NEW i \in 1 .. n, i # 1
        PROVE  blocks'[i].depth <= blocks'[i - 1].depth + 1
    <3>1. i - 1 \in 1 .. n
      BY <2>1
    <3> QED BY <1>1, <1>4, <2>1, <3>1 DEF BlocksNested
  <2>2. \A i \in 1 .. n : i = 1 => blocks'[i].depth <= 0
    BY <1>1, <1>4 DEF BlocksNested
  <2> QED BY <2>1, <2>2
<1>6. stack' # <<>> => m <= blocks'[n].depth + 1
  <2> SUFFICES ASSUME stack' # <<>> PROVE m <= blocks'[n].depth + 1  OBVIOUS
  <2>1. m \in 1 .. m /\ stack # <<>>
    BY <1>3
  <2>2. n \in 1 .. n
    BY <1>1, <2>1 DEF BlocksNested
  <2> QED BY <1>1, <1>4, <2>1, <2>2 DEF BlocksNested
<1>7. ASSUME NEW k \in 1 .. m
      PROVE  /\ stack'[k].at \in 1 .. n
             /\ blocks'[stack'[k].at].depth = k - 1
             /\ blocks'[stack'[k].at].id = stack'[k].id
             /\ \A i \in 1 .. n : i > stack'[k].at => blocks'[i].depth >= k
  <2>1. stack'[k].at = stack[k].at /\ stack'[k].id = stack[k].id
    BY <1>1 DEF SameShape
  <2>2. /\ stack[k].at \in 1 .. n
        /\ blocks[stack[k].at].depth = k - 1
        /\ blocks[stack[k].at].id = stack[k].id
        /\ \A i \in 1 .. n : i > stack[k].at => blocks[i].depth >= k
    BY <1>1 DEF BlocksNested
  <2> QED BY <1>4, <2>1, <2>2
<1> QED BY <1>2, <1>5, <1>6, <1>7 DEF BlocksNested

\* A block that begins is a child of the innermost open one.
LEMMA PushKeepsNested ==
  ASSUME ParserOK, BlocksNested, NEW f, NEW b, f.at = Len(blocks) + 1, f.id = b.id,
         b.depth = Len(stack), stack' = Append(stack, f), blocks' = Append(blocks, b)
  PROVE  BlocksNested'
<1>1. PICK n \in Nat, m \in Nat : n = Len(blocks) /\ m = Len(stack)
  BY Lengths DEF ParserOK
<1>2. Len(blocks') = n + 1 /\ Len(stack') = m + 1
  BY <1>1 DEF ParserOK
<1>3. /\ blocks'[n + 1] = b /\ \A i \in 1 .. n : blocks'[i] = blocks[i]
      /\ stack'[m + 1] = f /\ \A k \in 1 .. m : stack'[k] = stack[k]
  BY <1>1 DEF ParserOK
<1>4. /\ blocks'[n + 1].depth = m /\ blocks'[n + 1].id = f.id
      /\ \A i \in 1 .. n : blocks'[i].depth = blocks[i].depth /\ blocks'[i].id = blocks[i].id
      /\ stack'[m + 1].at = n + 1 /\ stack'[m + 1].id = f.id
      /\ \A k \in 1 .. m : stack'[k].at = stack[k].at /\ stack'[k].id = stack[k].id
  BY <1>1, <1>3
<1>5. ASSUME NEW i \in 1 .. n + 1
      PROVE  blocks'[i].depth <= (IF i = 1 THEN 0 ELSE blocks'[i - 1].depth + 1)
  <2>1. CASE i = n + 1 /\ m = 0
    <3>1. n # 0 => blocks[n].depth \in Nat
      <4>1. n # 0 => n \in 1 .. Len(blocks)
        BY <1>1
      <4>2. n # 0 => blocks[n] \in Block
        BY <4>1 DEF ParserOK
      <4> QED BY <4>2 DEF Block
    <3>2. n # 0 => blocks'[n].depth \in Nat
      <4>1. n # 0 => n \in 1 .. n
        OBVIOUS
      <4> QED BY <1>4, <3>1, <4>1
    <3>3. i - 1 = n /\ (i # 1 => n # 0)
      BY <2>1
    <3>4. blocks'[i].depth = 0
      BY <1>4, <2>1, Zenon
    <3>5. i # 1 => blocks'[i - 1].depth \in Nat
      BY <3>2, <3>3, Zenon
    <3>6. 0 <= 0 /\ \A x \in Nat : 0 <= x + 1
      OBVIOUS
    <3> QED BY <3>4, <3>5, <3>6, Zenon
  <2>2. CASE i = n + 1 /\ m # 0
    <3>1. stack # <<>>
      BY <1>1, <2>2, Lengths DEF ParserOK
    <3>2. n \in 1 .. n /\ m <= blocks[n].depth + 1
      <4>1. m \in 1 .. m
        BY <2>2
      <4> QED BY <1>1, <3>1, <4>1 DEF BlocksNested
    <3>3. i - 1 = n /\ i # 1
      <4>1. n >= 1
        BY <3>2
      <4> QED BY <2>2, <4>1
    <3>4. blocks'[i].depth = m
      BY <1>4, <2>2, Zenon
    <3>5. blocks'[i - 1].depth = blocks[n].depth
      BY <1>4, <3>2, <3>3, Zenon
    <3> QED BY <3>2, <3>3, <3>4, <3>5, Zenon
  <2>3. CASE i \in 1 .. n
    <3>1. blocks[i].depth <= (IF i = 1 THEN 0 ELSE blocks[i - 1].depth + 1)
      BY <1>1, <2>3 DEF BlocksNested
    <3>2. i # 1 => i - 1 \in 1 .. n
      BY <2>3
    <3>3. i # 1 => blocks'[i - 1].depth = blocks[i - 1].depth
      BY <1>4, <3>2
    <3>4. blocks'[i].depth = blocks[i].depth
      BY <1>4, <2>3
    <3> QED BY <3>1, <3>3, <3>4
  <2>4. i = n + 1 \/ i \in 1 .. n
    OBVIOUS
  <2> QED BY <2>1, <2>2, <2>3, <2>4
<1>6. m + 1 <= blocks'[n + 1].depth + 1
  BY <1>4
<1>7. ASSUME NEW k \in 1 .. m + 1
      PROVE  /\ stack'[k].at \in 1 .. n + 1
             /\ blocks'[stack'[k].at].depth = k - 1
             /\ blocks'[stack'[k].at].id = stack'[k].id
             /\ \A i \in 1 .. n + 1 : i > stack'[k].at => blocks'[i].depth >= k
  <2>1. CASE k = m + 1
    <3>1. stack'[k].at = n + 1 /\ stack'[k].id = f.id
      BY <1>4, <2>1
    <3>2. k - 1 = m /\ n + 1 \in 1 .. n + 1
      BY <2>1
    <3>3. blocks'[n + 1].depth = k - 1 /\ blocks'[n + 1].id = stack'[k].id
      BY <1>4, <3>1, <3>2, Zenon
    <3>4. \A i \in 1 .. n + 1 : ~(i > n + 1)
      OBVIOUS
    <3> QED BY <3>1, <3>2, <3>3, <3>4, Zenon
  <2>2. CASE k \in 1 .. m
    <3>1. PICK at \in 1 .. n : at = stack[k].at
      BY <1>1, <2>2 DEF BlocksNested
    <3>2. /\ blocks[at].depth = k - 1
          /\ blocks[at].id = stack[k].id
          /\ \A i \in 1 .. n : i > at => blocks[i].depth >= k
      BY <1>1, <2>2, <3>1 DEF BlocksNested
    <3>3. stack'[k].at = at /\ stack'[k].id = stack[k].id
      BY <1>4, <2>2, <3>1
    <3>4. blocks'[at].depth = k - 1 /\ blocks'[at].id = stack[k].id
      BY <1>4, <3>2
    <3>5. \A i \in 1 .. n + 1 : i > at => blocks'[i].depth >= k
      <4>1. \A i \in 1 .. n + 1 : i = n + 1 \/ i \in 1 .. n
        OBVIOUS
      <4>2. m >= k
        BY <2>2
      <4> QED BY <1>4, <3>2, <4>1, <4>2
    <3>6. at \in 1 .. n + 1
      BY <3>1
    <3> QED BY <3>3, <3>4, <3>5, <3>6, Zenon
  <2>3. k = m + 1 \/ k \in 1 .. m
    OBVIOUS
  <2> QED BY <2>1, <2>2, <2>3
<1> QED BY <1>2, <1>5, <1>6, <1>7 DEF BlocksNested

\* When a block ends, those around it stay open.
LEMMA PopKeepsNested ==
  ASSUME ParserOK, ParserOK', BlocksNested, stack # <<>>,
         stack' = SubSeq(stack, 1, Len(stack) - 1), blocks' = blocks
  PROVE  BlocksNested'
<1>1. PICK n \in Nat, m \in Nat : n = Len(blocks) /\ m = Len(stack)
  BY Lengths DEF ParserOK
<1>2. m # 0 /\ Len(blocks') = n
  BY <1>1, Lengths DEF ParserOK
<1>3. Len(stack') = m - 1 /\ \A k \in 1 .. m - 1 : stack'[k] = stack[k]
  BY <1>1, <1>2 DEF ParserOK
<1>4. m <= blocks[n].depth + 1 /\ n \in 1 .. n
  BY <1>1, <1>2 DEF BlocksNested
<1>5. blocks[n].depth \in Nat
  <2>1. blocks[n] \in Block
    BY <1>1, <1>4 DEF ParserOK
  <2> QED BY <2>1 DEF Block
<1>6. m - 1 <= blocks[n].depth + 1
  BY <1>4, <1>5
<1>7. \A k \in 1 .. m - 1 : k \in 1 .. m
  OBVIOUS
<1> QED BY <1>1, <1>2, <1>3, <1>6, <1>7 DEF BlocksNested

LEMMA LengthIs ==
  ASSUME NEW S, NEW s \in Seq(S), NEW n \in Nat, DOMAIN s = 1 .. n
  PROVE  Len(s) = n
<1> QED OBVIOUS

LEMMA StillNested ==
  ASSUME BlocksNested, UNCHANGED <<stack, blocks>>
  PROVE  BlocksNested'
<1> QED BY DEF BlocksNested

\* A record changes neither the depth nor the id of a block.
LEMMA RecordKeepsShape ==
  ASSUME blocks \in Seq(Block), blocks' \in Seq(Block), NEW code, NEW operands, NEW blob,
         AddRecord(code, operands, blob)
  PROVE  /\ Len(blocks') = Len(blocks)
         /\ \A i \in 1 .. Len(blocks) :
              blocks'[i].depth = blocks[i].depth /\ blocks'[i].id = blocks[i].id
<1> DEFINE new == Append(blocks[Top.at].records,
                         [code |-> code, operands |-> operands, blob |-> blob])
<1>1. blocks' = [blocks EXCEPT ![Top.at].records = new]
  BY DEF AddRecord
<1> HIDE DEF new
<1>2. PICK n \in Nat : n = Len(blocks) /\ DOMAIN blocks = 1 .. n
  BY Lengths
<1>3. DOMAIN blocks' = 1 .. n
  BY <1>1, <1>2
<1>4. Len(blocks') = n
  BY <1>2, <1>3, LengthIs
<1>5. ASSUME NEW i \in 1 .. n
      PROVE  blocks'[i].depth = blocks[i].depth /\ blocks'[i].id = blocks[i].id
  <2>1. PICK b \in Block : b = blocks[i]
    BY <1>2
  <2>2. blocks'[i] = b \/ blocks'[i] = [b EXCEPT !.records = new]
    BY <1>1, <1>2, <2>1
  <2>3. [b EXCEPT !.records = new].depth = b.depth /\ [b EXCEPT !.records = new].id = b.id
    BY DEF Block
  <2> QED BY <2>1, <2>2, <2>3, Zenon
<1> QED BY <1>2, <1>4, <1>5

\* A frame's abbreviations and its setbid change neither its id nor its block.
LEMMA TopKeepsShape ==
  ASSUME stack \in Seq(Frame), stack' \in Seq(Frame), stack # <<>>, NEW f, f.at = Top.at, f.id = Top.id,
         stack' = SetTop(f)
  PROVE  /\ Len(stack') = Len(stack)
         /\ \A k \in 1 .. Len(stack) :
              stack'[k].at = stack[k].at /\ stack'[k].id = stack[k].id
<1>1. PICK m \in Nat : m = Len(stack) /\ DOMAIN stack = 1 .. m
  BY Lengths
<1>2. stack' = [stack EXCEPT ![m] = f] /\ Top = stack[m]
  BY <1>1 DEF SetTop, Top
<1>3. DOMAIN stack' = 1 .. m
  BY <1>1, <1>2
<1>4. Len(stack') = m
  BY <1>1, <1>3, LengthIs
<1>5. ASSUME NEW k \in 1 .. m
      PROVE  stack'[k].at = stack[k].at /\ stack'[k].id = stack[k].id
  <2>1. stack'[k] = IF k = m THEN f ELSE stack[k]
    BY <1>1, <1>2
  <2> QED BY <1>2, <2>1
<1> QED BY <1>1, <1>4, <1>5

LEMMA EnterNests ==
  ASSUME ParserOK, BlocksNested, Enter
  PROVE  BlocksNested'
<1> DEFINE id     == ReadVbr(Abbrev, 8)
           width  == ReadVbr(id, 4)
           length == Read(Align32(width), 32)
           block  == [id |-> id.v, width |-> width.v, depth |-> Len(stack), records |-> <<>>]
           frame  == [id |-> id.v, width |-> width.v, at |-> Len(blocks) + 1,
                      abbrevs |-> Infos(id.v), setbid |-> {}]
           Then   == /\ stack' = Append(stack, frame) /\ blocks' = Append(blocks, block)
                     /\ UNCHANGED blockinfo
<1>1. OrError(length, Then)
  BY Zenon DEF Enter
<1> HIDE DEF length
<1>2. CASE Fails(length.e)
  BY <1>2, StillNested DEF Fails
<1>3. CASE Then
  <2>1. frame.at = Len(blocks) + 1 /\ frame.id = block.id /\ block.depth = Len(stack)
    OBVIOUS
  <2> HIDE DEF frame, block
  <2> QED BY <1>3, <2>1, PushKeepsNested
<1> QED BY <1>1, <1>2, <1>3 DEF OrError

LEMMA DefineNests ==
  ASSUME ParserOK, ParserOK', BlocksNested, DefineAbbrev
  PROVE  BlocksNested'
<1> DEFINE def == ReadAbbrevDef(Abbrev)
           f   == [Top EXCEPT !.abbrevs = Append(@, def.v)]
<1>1. stack # <<>> /\ Top \in Frame
  BY InBlockIs DEF DefineAbbrev
<1>2. \/ UNCHANGED <<stack, blocks>>
      \/ stack' = SetTop(f) /\ UNCHANGED blocks
  <2>1. CASE def.e # ""
    BY <2>1 DEF DefineAbbrev, OrError, Fails
  <2>2. CASE def.e = "" /\ Top.id # 0
    BY <2>2 DEF DefineAbbrev, OrError
  <2>3. CASE def.e = "" /\ Top.id = 0
    BY <2>3 DEF DefineAbbrev, OrError
  <2> QED BY <2>1, <2>2, <2>3
<1>3. f.at = Top.at /\ f.id = Top.id
  BY <1>1 DEF Frame
<1> HIDE DEF f
<1>4. CASE stack' = SetTop(f) /\ UNCHANGED blocks
  <2>1. SameShape
    BY <1>1, <1>3, <1>4, TopKeepsShape DEF SameShape, ParserOK
  <2> QED BY <2>1, ShapeKeepsNested
<1> QED BY <1>2, <1>4, StillNested

LEMMA UnabbrevNests ==
  ASSUME ParserOK, ParserOK', BlocksNested, UnabbrevRecord
  PROVE  BlocksNested'
<1> DEFINE code   == ReadVbr(Abbrev, 6)
           count  == ReadVbr(code, 6)
           ops    == ReadMany(count, count.v, [kind |-> "vbr", arg |-> 6], <<>>)
           target == {ops.v[k] : k \in DOMAIN ops.v \cap {1}}
           f      == [Top EXCEPT !.setbid = target]
<1>1. stack # <<>> /\ Top \in Frame
  BY InBlockIs DEF UnabbrevRecord
<1>2. \/ UNCHANGED <<stack, blocks>>
      \/ AddRecord(code.v, ops.v, <<>>) /\ (stack' = SetTop(f) \/ stack' = stack)
  <2>1. CASE ops.e # ""
    BY <2>1 DEF UnabbrevRecord, OrError, Fails
  <2>2. CASE ops.e = "" /\ Top.id = 0 /\ code.v = 1
    BY <2>2 DEF UnabbrevRecord, OrError
  <2>3. CASE ops.e = "" /\ ~(Top.id = 0 /\ code.v = 1)
    BY <2>3 DEF UnabbrevRecord, OrError
  <2> QED BY <2>1, <2>2, <2>3
<1>3. f.at = Top.at /\ f.id = Top.id
  BY <1>1 DEF Frame
<1> HIDE DEF f, ops, code
<1>4. CASE AddRecord(code.v, ops.v, <<>>) /\ (stack' = SetTop(f) \/ stack' = stack)
  <2>1. /\ Len(blocks') = Len(blocks)
        /\ \A i \in 1 .. Len(blocks) :
             blocks'[i].depth = blocks[i].depth /\ blocks'[i].id = blocks[i].id
    BY <1>4, RecordKeepsShape DEF ParserOK
  <2>2. /\ Len(stack') = Len(stack)
        /\ \A k \in 1 .. Len(stack) :
             stack'[k].at = stack[k].at /\ stack'[k].id = stack[k].id
    BY <1>1, <1>3, <1>4, TopKeepsShape DEF ParserOK
  <2>3. SameShape
    BY <2>1, <2>2 DEF SameShape
  <2> QED BY <2>3, ShapeKeepsNested
<1> QED BY <1>2, <1>4, StillNested

LEMMA AbbreviatedNests ==
  ASSUME ParserOK, ParserOK', BlocksNested, AbbreviatedRecord
  PROVE  BlocksNested'
<1>1. \/ UNCHANGED <<stack, blocks>>
      \/ \E code, operands, blob : AddRecord(code, operands, blob) /\ UNCHANGED stack
  BY DEF AbbreviatedRecord, OrError, Fails
<1>2. ASSUME NEW code, NEW operands, NEW blob, AddRecord(code, operands, blob), UNCHANGED stack
      PROVE  BlocksNested'
  <2>1. SameShape
    BY <1>2, RecordKeepsShape DEF SameShape, ParserOK
  <2> QED BY <2>1, ShapeKeepsNested
<1> QED BY <1>1, <1>2, StillNested

LEMMA ParserNests ==
  ASSUME ParserOK, ParserOK', BlocksNested, ParserNext
  PROVE  BlocksNested'
<1>1. CASE TopLevel
  <2>1. CASE Enter
    BY <2>1, EnterNests
  <2>2. CASE Fails("panic") \/ Fails("done")
    BY <2>2, StillNested DEF Fails
  <2> QED BY <1>1, <2>1, <2>2 DEF TopLevel
<1>2. CASE EndBlock
  <2>1. stack # <<>>
    BY <1>2 DEF EndBlock, InBlock
  <2> QED BY <1>2, <2>1, PopKeepsNested DEF EndBlock
<1>3. CASE EnterSubblock
  BY <1>3, EnterNests DEF EnterSubblock
<1>4. CASE BlockCutOff
  BY <1>4, StillNested DEF BlockCutOff, Fails
<1> QED BY <1>1, <1>2, <1>3, <1>4, DefineNests, UnabbrevNests, AbbreviatedNests DEF ParserNext

\* Whatever the bytes of the file, the calls of parse_block under way are those of
\* the blocks around the position, each with the id of the block that its records go
\* to, and the blocks found so far have their places in the tree (parse_block).
THEOREM BlocksNest == Spec => []BlocksNested
<1>1. Init => BlocksNested
  <2> SUFFICES ASSUME Init PROVE BlocksNested  OBVIOUS
  <2>1. stack = <<>> /\ blocks = <<>>
    BY DEF Init
  <2>2. Len(stack) = 0 /\ Len(blocks) = 0
    BY <2>1
  <2> QED BY <2>1, <2>2 DEF BlocksNested
<1>2. IInv /\ IInv' /\ BlocksNested /\ [Next]_vars => BlocksNested'
  <2> SUFFICES ASSUME IInv, IInv', BlocksNested, [Next]_vars PROVE BlocksNested'  OBVIOUS
  <2>1. CASE \E in \in Inputs : CompileAirToSpirv(in)
    <3>1. stack' = <<>> /\ blocks' = <<>>
      BY <2>1 DEF CompileAirToSpirv, StartParse
    <3>2. Len(stack') = 0 /\ Len(blocks') = 0
      BY <3>1
    <3> QED BY <3>1, <3>2 DEF BlocksNested
  <2>2. CASE ParserNext
    BY <2>2, ParserNests DEF IInv
  <2>3. CASE TransformModule \/ UNCHANGED vars
    BY <2>3, StillNested DEF TransformModule, vars, parserVars
  <2> QED BY <2>1, <2>2, <2>3 DEF Next
<1> QED BY <1>1, <1>2, ShaderInvariant, PTL DEF Spec
==============================================================================
