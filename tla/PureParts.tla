----------------------------- MODULE PureParts -----------------------------
(***************************************************************************)
(* The parts of the code that keep no state and are proved for every       *)
(* input: a behaviour takes one input of one part and ends.                *)
(***************************************************************************)
EXTENDS Positions, IncludePaths, Inlining

VARIABLES input

OfCharacters(characters, farthest) ==
  [part |-> "characters", characters |-> characters, farthest |-> farthest]
OfBytes(bytes) == [part |-> "bytes", bytes |-> bytes]
OfInclude(disk, listed, including, request, search, roots) ==
  [part |-> "include", disk |-> disk, listed |-> listed, including |-> including,
   request |-> request, search |-> search, roots |-> roots]
OfPage(pieces, media) == [part |-> "page", pieces |-> pieces, media |-> media]
OfLayers(tag, names, call, styles) ==
  [part |-> "layers", tag |-> tag, names |-> names, call |-> call, styles |-> styles]
OfDeclarations(entries) == [part |-> "declarations", entries |-> entries]

AnyCharacters ==
  {OfCharacters(characters, farthest) : characters \in Seq(Character), farthest \in Nat}
AnyBytes == {OfBytes(bytes) : bytes \in Seq(Byte)}
Listing == Seq([absolute : BOOLEAN, parts : Seq(Part), size : Nat, contents : Contents])
AnyInclude ==
  {OfInclude(disk, listed, including, request, search, roots) :
     disk \in Disk, listed \in Listing, including \in Path, request \in Request,
     search \in Seq(Seq(Part)), roots \in SUBSET Seq(Part)}
PlacedPiece == [of : Piece, origins : Seq(Source) \ {<<>>}]
AnyPage ==
  {OfPage(pieces, media) : pieces \in Seq(PlacedPiece), media \in Seq(Source)}
AnyLayers ==
  {OfLayers(tag, names, call, styles) :
     tag \in [style : Style], names \in Seq(Bundle), call \in Style,
     styles \in UNION {[D -> Style] : D \in SUBSET Bundle}}
StyleEntry == [name : Seq(Letters) \ {<<>>}, value : {v \in Seq(Sign) : IsValue(v)}]
AnyDeclarations == {OfDeclarations(entries) : entries \in Seq(StyleEntry)}
AnyInput ==
  AnyCharacters \cup AnyBytes \cup AnyInclude \cup AnyPage \cup AnyLayers \cup AnyDeclarations
AnySpec == input \in AnyInput /\ [][UNCHANGED input]_input

\* A place has one offset and one position, in texts of whole characters, and no
\* other text is let in (positions.cpp:38-83, source.cpp:8-74).
PositionsAgree ==
  /\ input.part = "characters" => PlacesAgree(input.characters, input.farthest)
  /\ input.part = "bytes" => EncodingChecked(input.bytes)

\* A file has one name, and the same one in memory as on disk (include.cpp:63-160).
PathsAgree ==
  input.part = "include" =>
    /\ OneName(input.disk, input.including, input.request, input.search, input.roots)
    /\ SameFromMemory(input.disk, input.listed, input.including, input.request, input.search,
                      input.roots)

\* Styles cascade as in CSS, layer by layer and tag by tag, and every piece of
\* the output keeps its origin (css.cpp:42-265, provenance.cpp:22-72).
StylesCascade ==
  /\ input.part = "declarations" => DeclarationsKept(input.entries)
  /\ input.part = "layers" => LayersCascade(input.tag, input.names, input.call, input.styles)
  /\ input.part = "page" =>
       TagsCascade(input.pieces, input.media) /\ OriginsKept(input.pieces, input.media)
=============================================================================
