----------------------------- MODULE AirParser -------------------------------
(***************************************************************************)
(* shader_jit/air_parser.rs: the LLVM bit stream of an AIR file.  One step *)
(* is one turn of the loop of parse or of parse_block; the calls of        *)
(* parse_block under way are a stack.  The bits are real bits: the hazards *)
(* of the file are in its widths, its alignment and its end.               *)
(*                                                                         *)
(* A read's result is a record of the value, the position after it and the *)
(* error, "" while there is none; reads after an error change nothing, as  *)
(* ? sees to.  "panic" stands for bits_remaining with a position behind    *)
(* the end: the subtraction overflows in a checked build, and otherwise    *)
(* the index that follows is out of bounds.  Numbers have no width: values *)
(* of more than 64 bits and counts too large to allocate are left out, and *)
(* a width of 0 holds the value 0, as in a build without overflow checks.  *)
(***************************************************************************)
EXTENDS Integers, Sequences, Functions

CONSTANT Inputs   \* files: [bits, wrapped, size], see Body, and what was written:
                  \* [blocks, broken]

ASSUME InputsAssumption ==
  \A in \in Inputs : in.bits \in Seq({0, 1}) /\ in.wrapped \in BOOLEAN /\ in.size \in Nat

VARIABLES
  input,      \* the file being parsed
  pos,        \* bit_pos
  stack,      \* the blocks being parsed, innermost last
  blockinfo,  \* AbbrevTable: block id -> abbreviations
  blocks,     \* top_level: each block and then those within it, with their depth
  status      \* "idle", "parsing", "done", or the error

parserVars == <<input, pos, stack, blockinfo, blocks, status>>

\* The bytes after the magic, in bits.  A wrapper of 20 bytes announces size bytes
\* of bit stream, its magic included; the file may hold more than that.
Body(in) == IF in.wrapped THEN SubSeq(in.bits, 1, 8 * (in.size - 4)) ELSE in.bits
Tail32   == Len(Body(input)) - pos

\* locate_bitstream.
Located(in) ==
  in.wrapped => in.size * 8 <= 32 + Len(in.bits) /\ in.size >= 4

-----------------------------------------------------------------------------
\* BitReader.

At(p)      == [v |-> 0, p |-> p, e |-> ""]
Err(r, e)  == [v |-> 0, p |-> r.p, e |-> e]
Give(r, v) == IF r.e = "" THEN [v |-> v, p |-> r.p, e |-> ""] ELSE r

\* The number in n bits, lowest first, of which every skip-th counts for nothing.
BitsAt(p, n, skip) ==
  LET f[k \in 0 .. n] ==
        IF k = 0 THEN 0
        ELSE IF (n - k + 1) % skip = 0 THEN f[k - 1]
        ELSE Body(input)[p + n - k + 1] + 2 * f[k - 1]
  IN f[n]

ReadBits(r, n, skip) ==
  IF r.e # "" THEN r
  ELSE IF n = 0 THEN Give(r, 0)
  ELSE IF r.p > Len(Body(input)) THEN Err(r, "panic")
  ELSE IF n \notin 0 .. Len(Body(input)) - r.p THEN Err(r, "UnexpectedEof")
  ELSE [v |-> BitsAt(r.p, n, skip), p |-> r.p + n, e |-> ""]

Read(r, n) == ReadBits(r, n, n + 1)

\* Chunks of width - 1 bits, lowest first; the top bit says that more follow.
Chunks(p, width) ==
  LET Last(k) == width = 0 \/ p + k * width > Len(Body(input)) \/ Body(input)[p + k * width] = 0
  IN CHOOSE k \in 1 .. Len(Body(input)) + 1 : Last(k) /\ \A j \in 1 .. k - 1 : ~Last(j)

ReadVbr(r, width) == ReadBits(r, width * Chunks(r.p, width), width)

\* mutant: a position that is aligned already moves on by a word
Align32Always(r) == [r EXCEPT !.p = 32 * (1 + @ \div 32)]

Align32(r) == [r EXCEPT !.p = 32 * ((@ + 31) \div 32)]

-----------------------------------------------------------------------------
\* Abbreviations: sequences of [kind, arg].

Encodings == <<"fixed", "vbr", "array", "char6", "blob">>

ReadAbbrevOp(r) ==
  LET literal  == Read(r, 1)
      value    == ReadVbr(literal, 8)
      encoding == Read(literal, 3)
      width    == IF encoding.v \in 1 .. 2 THEN ReadVbr(encoding, 5) ELSE Give(encoding, 0)
  IN IF literal.v = 1 THEN Give(value, [kind |-> "literal", arg |-> value.v])
     ELSE IF encoding.e = "" /\ encoding.v \notin DOMAIN Encodings
     THEN Err(encoding, "Malformed")
     ELSE IF encoding.e # "" THEN encoding
     ELSE Give(width, [kind |-> Encodings[encoding.v], arg |-> width.v])

\* One operand after the other; after an error there is nothing more to read.
ReadAbbrevDef(r) ==
  LET num_ops == ReadVbr(r, 5)
      f[k \in 0 .. num_ops.v] ==
        IF k = 0 THEN Give(num_ops, <<>>)
        ELSE LET ops == f[k - 1]
                 op  == ReadAbbrevOp(ops)
             IN Give(op, Append(ops.v, op.v))
  IN f[num_ops.v]

ReadScalar(r, op) ==
  IF r.e # "" THEN r
  ELSE CASE op.kind = "literal" -> Give(r, op.arg)
         [] op.kind = "fixed"   -> Read(r, op.arg)
         [] op.kind = "vbr"     -> ReadVbr(r, op.arg)
         [] op.kind = "char6"   -> Read(r, 6)
         [] OTHER               -> Err(r, "Malformed")

ReadMany(r, n, op, values) ==
  LET f[k \in 0 .. n] ==
        IF k = 0 THEN Give(r, values)
        ELSE LET some == f[k - 1]
                 one  == ReadScalar(some, op)
             IN Give(one, Append(some.v, one.v))
  IN f[n]

\* A turn of the loop of read_abbreviated_record, whose locals are the value of r.
ReadOperand(r, ops) ==
  LET op    == ops[r.v.i]
      count == ReadVbr(r, 6)
      elems == ReadMany(count, count.v, ops[r.v.i + 1], r.v.values)
      bytes == ReadMany(Align32(count), count.v, [kind |-> "fixed", arg |-> 8], r.v.blob)
      one   == ReadScalar(r, op)
  IN IF r.e # "" \/ r.v.i > Len(ops) THEN r
     ELSE CASE op.kind = "array" ->
                 IF count.e # "" THEN count
                 ELSE IF r.v.i = Len(ops) THEN Err(count, "Malformed")
                 ELSE Give(elems, [i |-> r.v.i + 2, values |-> elems.v, blob |-> r.v.blob])
            [] op.kind = "blob" ->
                 Give(Align32(bytes),
                      [i |-> r.v.i + 1, values |-> r.v.values, blob |-> bytes.v])
            [] OTHER ->
                 Give(one, [i |-> r.v.i + 1, values |-> Append(r.v.values, one.v),
                            blob |-> r.v.blob])

ReadOperands(r, ops) ==
  LET f[k \in 0 .. Len(ops)] ==
        IF k = 0 THEN Give(r, [i |-> 1, values |-> <<>>, blob |-> <<>>])
        ELSE ReadOperand(f[k - 1], ops)
  IN f[Len(ops)]

-----------------------------------------------------------------------------
\* parse and parse_block.

Top         == stack[Len(stack)]
SetTop(f)   == [stack EXCEPT ![Len(stack)] = f]
Abbrev      == IF stack = <<>> THEN Read(At(pos), 2) ELSE Read(At(pos), Top.width)
InBlock(id) == status = "parsing" /\ stack # <<>> /\ Abbrev.e = "" /\ Abbrev.v = id

\* mutant: a block starts without the abbreviations that block info gave it
NoInfos(id) == <<>>

\* table.blockinfo.get(&block_id).cloned().unwrap_or_default()
Infos(id) == IF id \in DOMAIN blockinfo THEN blockinfo[id] ELSE <<>>

Fails(e)    == status' = e /\ UNCHANGED <<input, pos, stack, blockinfo, blocks>>
Advance(r)  == pos' = r.p /\ UNCHANGED <<input, status>>

\* The loop turn went well and does Then, or stops at an error.
OrError(r, Then) == IF r.e = "" THEN Advance(r) /\ Then ELSE Fails(r.e)

\* A block begins after its abbreviation id; the length it announces is skipped.
Enter ==
  LET id     == ReadVbr(Abbrev, 8)
      width  == ReadVbr(id, 4)
      length == Read(Align32(width), 32)
      block  == [id |-> id.v, width |-> width.v, depth |-> Len(stack), records |-> <<>>]
      frame  == [id |-> id.v, width |-> width.v, at |-> Len(blocks) + 1,
                 abbrevs |-> Infos(id.v), setbid |-> {}]
  IN OrError(length, /\ stack' = Append(stack, frame) /\ blocks' = Append(blocks, block)
                     /\ UNCHANGED blockinfo)

StartParse(in) ==
  /\ input' = in
  /\ status' = IF Located(in) THEN "parsing" ELSE "NotLocated"
  /\ pos' = 0 /\ stack' = <<>> /\ blockinfo' = <<>> /\ blocks' = <<>>

TopLevel ==
  /\ status = "parsing" /\ stack = <<>>
  /\ IF Tail32 < 0 THEN Fails("panic")
     ELSE IF Tail32 < 32 \/ Abbrev.v # 1 THEN Fails("done")
     ELSE Enter

EndBlock ==
  /\ InBlock(0)
  /\ Advance(Align32(Abbrev))
  /\ stack' = SubSeq(stack, 1, Len(stack) - 1)
  /\ UNCHANGED <<blockinfo, blocks>>

EnterSubblock == InBlock(1) /\ Enter

DefineAbbrev ==
  LET def == ReadAbbrevDef(Abbrev)
  IN /\ InBlock(2)
     /\ OrError(def,
          /\ UNCHANGED blocks
          /\ IF Top.id # 0
             THEN /\ stack' = SetTop([Top EXCEPT !.abbrevs = Append(@, def.v)])
                  /\ UNCHANGED blockinfo
             ELSE /\ blockinfo' = [id \in DOMAIN blockinfo \cup Top.setbid |->
                                     IF id \in Top.setbid
                                     THEN Append(Infos(id), def.v) ELSE blockinfo[id]]
                  /\ UNCHANGED stack)

AddRecord(code, operands, blob) ==
  blocks' = [blocks EXCEPT ![Top.at].records =
               Append(@, [code |-> code, operands |-> operands, blob |-> blob])]

\* In block 0 record 1 names the block that the next abbreviations are for.
UnabbrevRecord ==
  LET code   == ReadVbr(Abbrev, 6)
      count  == ReadVbr(code, 6)
      ops    == ReadMany(count, count.v, [kind |-> "vbr", arg |-> 6], <<>>)
      target == {ops.v[k] : k \in DOMAIN ops.v \cap {1}}
  IN /\ InBlock(3)
     /\ OrError(ops, /\ AddRecord(code.v, ops.v, <<>>)
                     /\ stack' = IF Top.id = 0 /\ code.v = 1
                                 THEN SetTop([Top EXCEPT !.setbid = target]) ELSE stack
                     /\ UNCHANGED blockinfo)

AbbreviatedRecord ==
  LET n      == Abbrev.v - 3
      all    == ReadOperands(Abbrev, Top.abbrevs[n])
      values == all.v.values
      code   == IF values = <<>> THEN 0 ELSE values[1]
  IN /\ InBlock(Abbrev.v) /\ Abbrev.v > 3
     /\ IF n > Len(Top.abbrevs) THEN Fails("Malformed")
        ELSE OrError(all, /\ AddRecord(code, SubSeq(values, 2, Len(values)), all.v.blob)
                          /\ UNCHANGED <<stack, blockinfo>>)

\* The stream ends where an abbreviation id should be.
BlockCutOff ==
  /\ status = "parsing" /\ stack # <<>> /\ Abbrev.e # ""
  /\ Fails(Abbrev.e)

ParserNext ==
  \/ TopLevel \/ EndBlock \/ EnterSubblock \/ DefineAbbrev
  \/ UnabbrevRecord \/ AbbreviatedRecord \/ BlockCutOff
==============================================================================
