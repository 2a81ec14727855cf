--------------------------- MODULE PostProcessing ---------------------------
(****************************************************************************)
(* The post-processor chain and its built-in steps (postproc/).  A text is  *)
(* a Concrete whose kind says which text of which number it is: the string  *)
(* at an address, or the hexadecimal digits of an integer.                  *)
(****************************************************************************)
EXTENDS ValueLattice

CONSTANTS
    CStrings, WideStrings, \* the addresses where such a string begins
    Words                  \* the integers the database can be read for

TextKind == {"c_string", "wide_string", "hex"}
Text(n, kind) == [tag |-> "Concrete", value |-> n, kind |-> kind]

IsInteger(v) == v.tag = "Concrete" /\ v.kind \in Kind

\* _address_of: an integer, or the integer content of a memory read.
HasAddress(v) == IsInteger(v) \/ (v.tag = "MemoryRef" /\ IsInteger(v.content))
AddressOf(v)  == IF v.tag = "MemoryRef" THEN v.content.value ELSE v.value

Shapeless == Unknown("UNSUPPORTED_OPERAND_SHAPE")
Unreadable == Unknown("MEMORY_READ_FAILED")

StringAt(strings, kind, v) ==
    CASE ~HasAddress(v) -> Shapeless
      [] HasAddress(v) /\ AddressOf(v) \in strings -> Text(AddressOf(v), kind)
      [] HasAddress(v) /\ AddressOf(v) \notin strings -> Unreadable

HexFormat(v) == IF IsInteger(v) THEN Text(v.value, "hex") ELSE Shapeless

IntCast(v) == IF HasAddress(v) THEN Concrete(AddressOf(v), "INT") ELSE Shapeless

FieldAt(offset, v) ==
    CASE ~HasAddress(v) -> Shapeless
      [] HasAddress(v) /\ AddressOf(v) + offset \in DOMAIN Words ->
            Concrete(Words[AddressOf(v) + offset], "INT")
      [] HasAddress(v) /\ AddressOf(v) + offset \notin DOMAIN Words -> Unreadable

\* A step of a chain.  A user's own may answer anything, for an Unknown too
\* ("constant"), or raise.
ChainStep == [name : {"c_string", "wide_string", "hex", "int", "struct_field", "constant", "raises"},
              arg : Int]

Process(step, v) ==
    CASE step.name = "c_string"     -> StringAt(CStrings, "c_string", v)
      [] step.name = "wide_string"  -> StringAt(WideStrings, "wide_string", v)
      [] step.name = "hex"          -> HexFormat(v)
      [] step.name = "int"          -> IntCast(v)
      [] step.name = "struct_field" -> FieldAt(step.arg, v)
      [] step.name = "constant"     -> Concrete(step.arg, "INT")
      [] step.name = "raises"       -> Unknown("INTERNAL_ERROR")

\* Mutant of Run: the chain does not stop at an Unknown.
Run_NoShortCircuit(chain, v) ==
    LET after[n \in 0..Len(chain)] ==
            IF n = 0 THEN v ELSE Process(chain[n], after[n - 1])
    IN  after[Len(chain)]

\* PostProcessorChain.run.  A step that raises ends the chain in an Unknown,
\* like one that answers Unknown.
Run(chain, v) ==
    LET after[n \in 0..Len(chain)] ==
            IF n = 0 THEN v
            ELSE IF IsUnknown(after[n - 1]) THEN after[n - 1] ELSE Process(chain[n], after[n - 1])
    IN  after[Len(chain)]

=============================================================================
