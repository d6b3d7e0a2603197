----------------------------- MODULE ShaderJit -------------------------------
(***************************************************************************)
(* shader_jit/mod.rs and transforms.rs: one ShaderJitContext compiles AIR  *)
(* files one after another.  Its transformer walks the blocks of a parsed  *)
(* file and gives each named argument buffer a binding.  The words that    *)
(* compile_air_to_spirv returns are those of the file and are left out.    *)
(*                                                                         *)
(* A text is one byte here.  Names are the texts that contain              *)
(* argument_buffer or buffer_index, Tags those that contain                *)
(* air.argument_buffer, which the scan of the file's bytes looks for.      *)
(***************************************************************************)
EXTENDS AirParser, FiniteSetsExt

CONSTANTS Names, Tags, MaxCompiles

ASSUME ShaderAssumption == Tags \subseteq Names

VARIABLES
  counter,   \* binding_counter
  result,    \* binding_map and requires_control_barrier_fix
  given,     \* history: the bindings of earlier files
  compiles   \* bound: files begun

jitVars == <<counter, result, given, compiles>>
vars == <<parserVars, jitVars>>

NoResult == [map |-> <<>>, fix |-> FALSE]

Init ==
  /\ input = [bits |-> <<>>, wrapped |-> FALSE, size |-> 0, blocks |-> <<>>,
             broken |-> FALSE]
  /\ pos = 0 /\ stack = <<>> /\ blockinfo = <<>> /\ blocks = <<>> /\ status = "idle"
  /\ counter = 0 /\ result = NoResult /\ given = {} /\ compiles = 0

CompileAirToSpirv(in) ==
  /\ status \notin {"parsing", "done", "panic"} /\ compiles < MaxCompiles
  /\ StartParse(in)
  /\ compiles' = compiles + 1 /\ result' = NoResult
  /\ given' = given \cup Range(result.map)
  /\ UNCHANGED counter

\* scan_known_air_tags, for the tag that the transformer uses.
HasArgumentBuffers ==
  \E k \in 0 .. Len(Body(input)) \div 8 - 1 : BitsAt(8 * k, 8, 9) \in Tags

\* Bytes from 128 on stand for what is not UTF-8.
IsNamed(record) ==
  Range(record.blob) \cap Names # {} /\ Range(record.blob) \subseteq 0 .. 127

\* A record's place is that of its block and its own in the block.  The walk goes
\* through a block's records and then through its subblocks.
Places         == UNION {{i} \X DOMAIN blocks[i].records : i \in DOMAIN blocks}
RecordAt(p)    == blocks[p[1]].records[p[2]]
Precedes(p, q) == p[1] < q[1] \/ (p[1] = q[1] /\ p[2] < q[2])
NamedPlaces    == {p \in Places : IsNamed(RecordAt(p))}

\* Each named record takes the counter's next value; a name seen again gets a new
\* binding and forgets the old one.
Binding(p)     == counter + Cardinality({q \in NamedPlaces : Precedes(q, p)})
BindingMap     ==
  [name \in {RecordAt(p).blob : p \in NamedPlaces} |->
     Max({Binding(p) : p \in {q \in NamedPlaces : RecordAt(q).blob = name}})]

\* mutant: the counter follows the map's size
TransformByMapSize ==
  /\ status = "done"
  /\ result' = [map |-> IF HasArgumentBuffers THEN BindingMap ELSE <<>>,
                fix |-> \E p \in Places : RecordAt(p).code \in {5, 6}]
  /\ counter' = counter + Cardinality(DOMAIN result'.map)
  /\ status' = "idle" /\ UNCHANGED <<input, pos, stack, blockinfo, blocks, given, compiles>>

TransformModule ==
  /\ status = "done"
  /\ result' = [map |-> IF HasArgumentBuffers THEN BindingMap ELSE <<>>,
                fix |-> \E p \in Places : RecordAt(p).code \in {5, 6}]
  /\ counter' = counter + (IF HasArgumentBuffers THEN Cardinality(NamedPlaces) ELSE 0)
  /\ status' = "idle" /\ UNCHANGED <<input, pos, stack, blockinfo, blocks, given, compiles>>

Next ==
  \/ (\E in \in Inputs : CompileAirToSpirv(in))
  \/ ParserNext /\ UNCHANGED jitVars
  \/ TransformModule

Spec == Init /\ [][Next]_vars

-----------------------------------------------------------------------------
\* What the file's writer put into the blocks that the body holds whole; end is
\* the position after a block and those it is in.
Whole   == {k \in DOMAIN input.blocks : input.blocks[k].end <= Len(Body(input))}
Written == [k \in 1 .. Cardinality(Whole) |-> input.blocks[k].block]

\* A parse that succeeds returns the blocks the writer wrote, as far as the body
\* holds them whole, with their nesting, records, operands and blobs, whatever the
\* widths, abbreviations and paddings; it succeeds unless more than a word of
\* another block follows, and then the error is the end of the stream; only a block
\* that breaks the format (broken) is called malformed (parse).
FaithfulParse ==
  /\ status = "done" =>
       /\ blocks = Written
       /\ Len(Body(input)) - pos < 32
  /\ status \notin {"idle", "parsing", "done", "NotLocated"} =>
       IF input.broken THEN status \in {"UnexpectedEof", "panic", "Malformed"}
       ELSE Cardinality(Whole) < Len(input.blocks) /\ status \in {"UnexpectedEof", "panic"}

\* The parser runs off the end, instead of reporting it, only in a body that is not
\* a whole number of words (align32 and bits_remaining).
PanicNeedsPartialWord == status = "panic" => Len(Body(input)) % 32 # 0

\* When a file is compiled, exactly the argument buffers named in its blocks bs have
\* bindings, if its bytes hold the tag at all, and no two buffers, of one file or of
\* several, have the same one (AirTransformer.binding_counter).
BindingsOf(bs) ==
  LET named == {r \in UNION {Range(bs[k].records) : k \in DOMAIN bs} : IsNamed(r)}
  IN /\ IsInjective(result.map)
     /\ Range(result.map) \cap given = {}
     /\ status = "idle" /\ compiles > 0 =>
          DOMAIN result.map = IF HasArgumentBuffers THEN {r.blob : r \in named} ELSE {}

\* That, for the blocks the file's writer wrote (AirTransformer.transform_module).
BindingsDistinct == BindingsOf(Written)
==============================================================================
