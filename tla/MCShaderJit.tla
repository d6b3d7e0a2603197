---------------------------- MODULE MCShaderJit ------------------------------
\* Instances of ShaderJit for TLC: a writer of bit streams and some files.
EXTENDS ShaderJit, SequencesExt

Field(v, n) == [k \in 1 .. n |-> (v \div 2 ^ (k - 1)) % 2]

Vbr(v, n) ==
  LET more == 2 ^ (n - 1)
      f[x \in 0 .. v] ==
        IF x < more THEN Field(x, n) ELSE Field((x % more) + more, n) \o f[x \div more]
  IN f[v]

Padded(bits) == bits \o Field(0, (-Len(bits)) % 32)
Concat(seqs) == FoldLeft(LAMBDA a, b : a \o b, <<>>, seqs)
Op(kind, arg) == [kind |-> kind, arg |-> arg]

AbbrevOpBits(op) ==
  IF op.kind = "literal" THEN <<1>> \o Vbr(op.arg, 8)
  ELSE <<0>> \o Field(CHOOSE n \in DOMAIN Encodings : Encodings[n] = op.kind, 3)
         \o (IF op.kind \in {"fixed", "vbr"} THEN Vbr(op.arg, 5) ELSE <<>>)

ScalarBits(op, v) ==
  CASE op.kind = "fixed" -> Field(v, op.arg)
    [] op.kind = "vbr"   -> Vbr(v, op.arg)
    [] op.kind = "char6" -> Field(v, 6)
    [] OTHER             -> <<>>

\* A record that follows the abbreviation ops; an array or a blob ends it.
Abbreviated(bits, ops, values, blob) ==
  LET Is(kind, k) == ops[k].kind = kind
      single == SelectInSeq(ops, LAMBDA op : op.kind \in {"array", "blob"})
      count  == IF single = 0 THEN Len(ops) ELSE single - 1
      start  == bits \o Concat([k \in 1 .. count |-> ScalarBits(ops[k], values[k])])
      rest   == SubSeq(values, count + 1, Len(values))
  IN CASE single = 0 -> start
       [] single # 0 /\ Is("array", single) ->
            start \o Vbr(Len(rest), 6)
              \o Concat([k \in DOMAIN rest |-> ScalarBits(Last(ops), rest[k])])
       [] OTHER ->
            Padded(Padded(start \o Vbr(Len(blob), 6))
                     \o Concat([k \in DOMAIN blob |-> Field(blob[k], 8)]))

Abbreviation(bits, ops) ==
  bits \o Vbr(Len(ops), 5) \o Concat([k \in DOMAIN ops |-> AbbrevOpBits(ops[k])])

\* What is written so far: the bits, the open blocks as [width, at], and all blocks
\* as [end, block], where an end of 0 stands for one not known yet.
Close(w) ==
  LET outer == Front(w.frames)
      bits  == Padded(w.bits \o Field(0, Last(w.frames).width))
  IN [bits |-> bits, frames |-> outer,
      blocks |-> [k \in DOMAIN w.blocks |->
                    IF outer = <<>> /\ w.blocks[k].end = 0
                    THEN [w.blocks[k] EXCEPT !.end = Len(bits)] ELSE w.blocks[k]]]

Put(w, bits, values, blob) ==
  LET record == [code |-> Head(values), operands |-> Tail(values), blob |-> blob]
  IN [w EXCEPT !.bits = bits, !.blocks[Last(w.frames).at].block.records = Append(@, record)]

\* Items: <<"block", id, width>>, <<"end">>, <<"abbrev", ops>>, <<"record", values>>,
\* <<"abbreviated", index, ops, values, blob>>.
Write(w, item) ==
  LET width == IF w.frames = <<>> THEN 2 ELSE Last(w.frames).width
  IN CASE item[1] = "block" ->
            [w EXCEPT
               !.bits = Padded(@ \o Field(1, width) \o Vbr(item[2], 8) \o Vbr(item[3], 4))
                          \o Field(1, 16) \o Field(0, 16),
               !.frames = Append(@, [width |-> item[3], at |-> Len(w.blocks) + 1]),
               !.blocks = Append(@, [end |-> 0,
                                     block |-> [id |-> item[2], width |-> item[3],
                                                depth |-> Len(w.frames), records |-> <<>>]])]
       [] item[1] = "end" -> Close(w)
       [] item[1] = "abbrev" ->
            [w EXCEPT !.bits = Abbreviation(@ \o Field(2, width), item[2])]
       [] item[1] = "record" ->
            Put(w, w.bits \o Field(3, width) \o Vbr(item[2][1], 6) \o Vbr(Len(item[2]) - 1, 6)
                     \o Concat([k \in 2 .. Len(item[2]) |-> Vbr(item[2][k], 6)]),
                item[2], <<>>)
       [] item[1] = "abbreviated" ->
            Put(w, Abbreviated(w.bits \o Field(item[2] + 3, width),
                                     item[3], item[4], item[5]), item[4], item[5])

File(items) ==
  LET w == FoldLeft(Write, [bits |-> <<>>, frames |-> <<>>, blocks |-> <<>>], items)
  IN [bits |-> w.bits, blocks |-> w.blocks]

-----------------------------------------------------------------------------
\* Byte 65 stands for an air.argument_buffer name, 66 for a buffer_index name, 67
\* for another text, 195 for bytes that are not UTF-8.

NameOps  == << Op("literal", 7), Op("blob", 0) >>
ListOps  == << Op("vbr", 3), Op("fixed", 2), Op("array", 0), Op("char6", 0) >>
PairOps  == << Op("fixed", 4), Op("vbr", 6) >>

Named(index, text) == << "abbreviated", index, NameOps, <<7>>, text >>

\* Nested blocks, operands wider than their fields, a barrier, an array.
Nested ==
  << <<"block", 8, 3>>, <<"record", <<1, 40>>>>, <<"abbrev", ListOps>>,
     <<"abbreviated", 1, ListOps, <<5, 3, 60, 2>>, <<>> >>,
       <<"block", 15, 4>>, <<"abbrev", NameOps>>, Named(1, <<65>>), <<"record", <<6>>>>,
       Named(1, <<>>), <<"end">>,
     <<"abbreviated", 1, ListOps, <<2, 1>>, <<>> >>, <<"record", <<2>>>>, <<"end">> >>

\* Block info, abbreviations for block 9 and then for block 10, and those blocks.
Shared ==
  << <<"block", 0, 2>>, <<"record", <<1, 9>>>>, <<"abbrev", PairOps>>, <<"abbrev", NameOps>>,
       <<"record", <<1, 10>>>>, <<"abbrev", NameOps>>, <<"end">>,
     <<"block", 9, 3>>, <<"abbreviated", 1, PairOps, <<9, 33>>, <<>> >>, <<"abbrev", ListOps>>,
       <<"abbreviated", 3, ListOps, <<1, 0, 7>>, <<>> >>,
       Named(2, <<66>>), Named(2, <<67>>), Named(2, <<66>>), <<"end">>,
     <<"block", 10, 3>>, Named(1, <<66, 67>>), Named(1, <<66, 195>>), <<"end">> >>

\* A record whose abbreviation its block does not have, and one whose array has no
\* element: block 9 would have both, block 11 has neither.
UnknownAbbrev == << <<"block", 11, 3>>, Named(1, <<66>>), <<"end">> >>
EndlessArray ==
  << <<"block", 11, 3>>, <<"abbrev", << Op("fixed", 3), Op("array", 0) >> >>,
     <<"abbreviated", 1, << Op("fixed", 3), Op("array", 0) >>, <<2>>, <<>> >>, <<"end">> >>

Sound(file)  == file @@ [broken |-> FALSE]
Broken(file) == [file EXCEPT !.blocks = Front(@)] @@ [broken |-> TRUE]
Files ==
  { Sound(File(Nested)), Sound(File(Shared)), Sound(File(Shared \o Nested)),
    Broken(File(Nested \o UnknownAbbrev)), Broken(File(EndlessArray)) }

\* Each file whole, and cut off after any byte; in a wrapper, whole or announcing
\* more or less than there is.
Cut(file, n) == [file EXCEPT !.bits = SubSeq(@, 1, 8 * n)]
Raw(file)    == file @@ [wrapped |-> FALSE, size |-> 0]
ConstInputs ==
  UNION { {Raw(Cut(file, n)) : n \in 0 .. Len(file.bits) \div 8} : file \in Files }
    \cup { file @@ [wrapped |-> TRUE, size |-> size] :
             file \in Files, size \in {2, 4, 24, 26} }
    \cup { file @@ [wrapped |-> TRUE, size |-> Len(file.bits) \div 8 + k] :
             file \in Files, k \in {4, 5} }
ConstNames == {65, 66}
ConstTags  == {65}
==============================================================================
