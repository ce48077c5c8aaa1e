-------------------------------- MODULE Tags --------------------------------
(***************************************************************************)
(* What writeTag and readTag owe one another.  They keep no state: the     *)
(* steps put a tag into lists and Compounds, beside tags that have no      *)
(* others inside them.                                                     *)
(***************************************************************************)
EXTENDS NBT

CONSTANTS
  Leaves,     \* tags with no others inside them
  TagNames,   \* names for lists and Compounds
  MaxBeside,  \* how many tags may stand beside one
  Around      \* bytes that may stand before and behind a tag

\* What a tag with no others inside it may hold.
LeafValues(type) ==
  CASE type = "Byte" -> SignedOf(1)
    [] type = "Short" -> SignedOf(2)
    [] type = "Int" -> SignedOf(WordBytes)
    [] type = "Long" -> SignedOf(2 * WordBytes)
    [] type = "Float" -> UnsignedOf(WordBytes)
    [] type = "Double" -> UnsignedOf(2 * WordBytes)
    [] type = "ByteArray" ->
         {s \in Seq(SignedOf(1)) : Len(s) \in SignedOf(WordBytes)}
    [] type = "String" -> Names
    [] type = "IntArray" ->
         {s \in Seq(SignedOf(WordBytes)) : Len(s) \in SignedOf(WordBytes)}
    [] type \in {"List", "Compound"} -> {<<>>}

ASSUME TagsAssumption ==
  /\ \A t \in Leaves :
       /\ t.type \in Types \ {"End"} /\ t.name \in Range(Order)
       /\ t.payload \in LeafValues(t.type)
       /\ t = MakeTag(t.type, t.name, t.payload)
  /\ TagNames \subseteq Range(Order)
  /\ MaxBeside \in Nat /\ MaxBeside + 1 \in SignedOf(WordBytes)
  /\ Around \subseteq Seq(Byte)

VARIABLES
  tag,    \* a tag,
  depth   \* and how many stand inside one another in it

TagInit == tag \in Leaves /\ depth = 0

Unnamed(t) == [t EXCEPT !.name = <<>>]

\* The tag goes into a list, before some more of its type ...
IntoList ==
  /\ depth < Nesting
  /\ \E n \in TagNames, k \in 0..MaxBeside :
       \E others \in [1..k -> {t \in Leaves : t.type = tag.type}] :
         tag' = MakeTag("List", n,
                        <<Unnamed(tag)>> \o [i \in 1..k |-> Unnamed(others[i])])
  /\ depth' = depth + 1

\* ... or into a Compound, with some of other names.
IntoCompound ==
  /\ depth < Nesting
  /\ \E n \in TagNames, k \in 0..MaxBeside :
       \E others \in [1..k -> {t \in Leaves : t.name # tag.name}] :
         /\ \A i, j \in 1..k : others[i].name = others[j].name => i = j
         /\ tag' = MakeCompound(n, {tag} \cup Range(others))
  /\ depth' = depth + 1

TagNext == IntoList \/ IntoCompound

TagSpec == TagInit /\ [][TagNext]_<<tag, depth>>

-----------------------------------------------------------------------------
(* Properties.                                                             *)

\* A tag is read back as it was written, to its last byte, between any other
\* bytes (NBT.cpp:8-218).
TagRoundTrip ==
  LET written == WriteTag(tag) IN
  \A before, behind \in Around :
    ReadTag(before \o written \o behind, Len(before)) =
      [value |-> tag, offset |-> Len(before) + Len(written)]
=============================================================================
