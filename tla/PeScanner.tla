------------------------------ MODULE PeScanner ------------------------------
(***************************************************************************)
(* The cross-reference scanner (tools/pe_xref_scanner/main.cpp): it looks   *)
(* for known strings in the file of a program, sweeps the executable       *)
(* section for instructions that refer to them or to a given function, and *)
(* dumps the code around each, the code at given addresses and the places  *)
(* where a given pointer is stored.                                        *)
(*                                                                         *)
(* An image has its bytes, its base and its sections; a file offset counts *)
(* from 0.  Decode is the disassembler: what instruction, if any, stands   *)
(* at an offset of the bytes when only those before a limit are seen.       *)
(***************************************************************************)
EXTENDS Integers, Sequences, FiniteSets, SequencesExt

CONSTANTS
    Decode(_, _, _),    \* of bytes, offset and limit: {} or one instruction, with
                        \* its length and its operands [relative, value]
    MaxInstruction,     \* the longest instruction
    StringWindow,       \* 64
    WindowBefore,       \* 400
    WindowAfter         \* 600

ASSUME ScannerAssumption ==
    /\ {MaxInstruction, StringWindow, WindowBefore, WindowAfter} \subseteq Nat \ {0}
    /\ WindowAfter >= MaxInstruction

NotFound == -1

-----------------------------------------------------------------------------
(* The section table: the first section that fits counts. *)

FileOffsetToRva(image, offset) ==
    LET i == SelectInSeq(image.sections, LAMBDA s : offset \in s.raw..(s.raw + s.rawSize - 1))
    IN  IF i = 0 THEN NotFound
        ELSE image.sections[i].va + (offset - image.sections[i].raw)

RvaToFileOffset(image, rva) ==
    LET i == SelectInSeq(image.sections, LAMBDA s : rva \in s.va..(s.va + s.size - 1))
    IN  IF i = 0 THEN NotFound
        ELSE image.sections[i].raw + (rva - image.sections[i].va)

FileOffsetToVa(image, offset) ==
    LET rva == FileOffsetToRva(image, offset) IN IF rva = NotFound THEN 0 ELSE image.base + rva

FindAll(bytes, needle) ==
    {offset \in 0..(Len(bytes) - Len(needle)) :
        SubSeq(bytes, offset + 1, offset + Len(needle)) = needle}

\* The addresses where the string stands, in either encoding (wide is the needle
\* with a zero behind every byte), as long as a section is loaded from there.
StringHits(image, needle, wide) ==
    {FileOffsetToVa(image, offset) :
        offset \in {o \in FindAll(image.bytes, needle) \cup FindAll(image.bytes, wide) :
                        FileOffsetToRva(image, o) # NotFound}}

-----------------------------------------------------------------------------
(* Linear disassembly from first up to limit: the offsets of the            *)
(* instructions.  Where decoding fails it goes on with the next byte.        *)

Sweep(bytes, first, limit) ==
    LET from[offset \in first..(first + Len(bytes))] ==
            IF offset >= limit THEN << >>
            ELSE IF Decode(bytes, offset, limit) = {} THEN from[offset + 1]
            ELSE LET i == CHOOSE x \in Decode(bytes, offset, limit) : TRUE
                 IN  <<[offset |-> offset, length |-> i.length, operands |-> i.operands]>>
                     \o from[offset + i.length]
    IN  from[first]

\* The lines of a listing whose first byte is said to be at address.
Listing(bytes, first, limit, address) ==
    LET swept == Sweep(bytes, first, limit)
    IN  [i \in DOMAIN swept |->
            [line |-> swept[i], address |-> address + (swept[i].offset - first)]]

TextSection(image) == SelectInSeq(image.sections, LAMBDA s : s.executable)

Limit(image, offset) == IF offset < Len(image.bytes) THEN offset ELSE Len(image.bytes)

\* A target that knows only the first byte of a string.
MatchesExactly(image, address, needle, wide, functions) ==
    address \in StringHits(image, needle, wide) \cup functions

\* An address within a string, or a function that was asked for.
Matches(image, address, needle, wide, functions) ==
    \/ \E va \in StringHits(image, needle, wide) : address \in va..(va + StringWindow - 1)
    \/ address \in functions

\* The address an operand refers to: relative ones count from the end of the
\* instruction.
Target(entry, operand) ==
    IF operand.relative THEN entry.address + entry.line.length + operand.value
    ELSE operand.value

\* The instructions that refer to a string or function, once for each operand
\* that does.
Xrefs(image, needle, wide, functions) ==
    LET i == TextSection(image)
        text == image.sections[i]
        listing == Listing(image.bytes, text.raw, Limit(image, text.raw + text.rawSize),
                           image.base + text.va)
        Hits(entry) == {n \in DOMAIN entry.line.operands :
                Matches(image, Target(entry, entry.line.operands[n]), needle, wide, functions)}
    IN  IF i = 0 THEN << >>
        ELSE FlattenSeq([k \in DOMAIN listing |->
                [n \in 1..Cardinality(Hits(listing[k])) |-> listing[k]]])

-----------------------------------------------------------------------------
(* The dumps *)

WindowStart(offset) == IF offset > WindowBefore THEN offset - WindowBefore ELSE 0

\* A mark that needs the listing to be in step with the sweep.
MarkedAtStart(entry, offset) == entry.line.offset = offset

Marked(entry, offset) ==
    offset \in entry.line.offset..(entry.line.offset + entry.line.length - 1)

DumpContext(image, offset) ==
    Listing(image.bytes, WindowStart(offset), Limit(image, offset + WindowAfter),
            FileOffsetToVa(image, WindowStart(offset)))

DumpFunctionAt(image, va, maxBytes) ==
    LET offset == IF va < image.base THEN NotFound ELSE RvaToFileOffset(image, va - image.base)
    IN  IF offset = NotFound THEN << >>
        ELSE Listing(image.bytes, offset, Limit(image, offset + maxBytes), va)

\* Where the bytes of a pointer are stored, with the address, 0 if it has none.
PointerSearch(image, pointer) ==
    {[offset |-> offset, va |-> FileOffsetToVa(image, offset)] :
        offset \in FindAll(image.bytes, pointer)}

=============================================================================
