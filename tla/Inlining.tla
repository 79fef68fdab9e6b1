------------------------------ MODULE Inlining ------------------------------
(***************************************************************************)
(* The last steps of a compilation: the style of a component's root        *)
(* (email-markup-core/src/styles.cpp, css.cpp), the media rules            *)
(* (compilation/compiler.cpp:94-121) and inline_css (css.cpp), on HTML     *)
(* that knows where each part comes from (GeneratedHtml, provenance.cpp).  *)
(*                                                                         *)
(* The HTML is a sequence of units.  A text, a tag, a </head> or a <style> *)
(* block is a piece of one or more units, which may come from different    *)
(* places.  Offsets count from 0, units from 1.  The declarations of a     *)
(* rule or of a style attribute are a function from properties to values;  *)
(* an attribute is spelled as serialize_declarations spells it.            *)
(***************************************************************************)
EXTENDS Declarations

CONSTANTS Class, Property, Value, Bundle, Source

Style == UNION {[D -> Value] : D \in SUBSET Property}
ClassRule == [class : Class, set : Style]
Piece ==
  [kind : {"text", "head"}]
    \cup [kind : {"tag"}, classes : SUBSET Class, style : Style]
    \cup [kind : {"style"}, media : BOOLEAN, rules : Seq(ClassRule)]
NoOrigin == "none"

UnitsOf(piece, parts) == [k \in 1..parts |-> [of |-> piece, part |-> k, parts |-> parts]]
NoHtml == [html |-> <<>>, segments |-> <<>>]

\* push_segment: an adjoining segment of the same origin grows.
Segment(start, end, origin) == [start |-> start, end |-> end, origin |-> origin]
PushSegment(segments, s) ==
  IF s.start = s.end THEN segments
  ELSE IF segments # <<>> /\ Last(segments).end = s.start /\ Last(segments).origin = s.origin
       THEN [segments EXCEPT ![Len(segments)].end = s.end]
       ELSE Append(segments, s)

\* GeneratedHtml::append.
AppendHtml(g, units, origin) ==
  LET start == Len(g.html) IN
  [html |-> g.html \o units,
   segments |-> PushSegment(g.segments, Segment(start, start + Len(units), origin))]

\* GeneratedHtml::insert: what is behind the offset moves, what goes over it is cut.
Pushed(s, start, end, origin) ==
  [s EXCEPT !.updated = PushSegment(@, Segment(start, end, origin))]
AddInserted(s, offset, size, origin) ==
  IF s.inserted THEN s ELSE [Pushed(s, offset, offset + size, origin) EXCEPT !.inserted = TRUE]
Inserted(g, offset, units, origin, Round(_, _)) ==
  LET before == [updated |-> <<>>, inserted |-> FALSE]
      done == AddInserted(Loop(Len(g.segments), before, Round), offset, Len(units), origin)
  IN [html |-> SubSeq(g.html, 1, offset) \o units \o SubSeq(g.html, offset + 1, Len(g.html)),
      segments |-> done.updated]
\* Mutant: what goes over the offset keeps its end.
InsertUncut(g, offset, units, origin) ==
  LET size == Len(units)
      Round(k, s) ==
        LET old == g.segments[k]
            put == AddInserted(s, offset, size, origin)
        IN IF old.start < offset THEN Pushed(s, old.start, old.end, old.origin)
           ELSE Pushed(put, old.start + size, old.end + size, old.origin)
  IN Inserted(g, offset, units, origin, Round)
InsertHtml(g, offset, units, origin) ==
  LET size == Len(units)
      Round(k, s) ==
        LET old == g.segments[k]
            left == Pushed(s, old.start, offset, old.origin)
            Behind(put, start) == Pushed(AddInserted(put, offset, size, origin),
                                         start + size, old.end + size, old.origin)
        IN IF old.end <= offset THEN Pushed(s, old.start, old.end, old.origin)
           ELSE IF old.start >= offset THEN Behind(s, old.start) ELSE Behind(left, offset)
  IN Inserted(g, offset, units, origin, Round)

\* append_slice and segment_at.
Later(a, b) == IF a > b THEN a ELSE b
Earlier(a, b) == IF a < b THEN a ELSE b
AppendSlice(output, g, start, end) ==
  LET Round(k, out) ==
        LET s == g.segments[k]  from == Later(start, s.start)  to == Earlier(end, s.end) IN
        IF from >= to THEN out ELSE AppendHtml(out, SubSeq(g.html, from + 1, to), s.origin)
  IN Loop(Len(g.segments), output, Round)
SegmentAt(g, offset) ==
  LET at == {i \in DOMAIN g.segments : offset \in g.segments[i].start..(g.segments[i].end - 1)} IN
  IF at = {} THEN NoOrigin ELSE g.segments[Min(at)].origin

-----------------------------------------------------------------------------
\* resolve_style_layers: the bundles in the order of their names, then the call;
\* an unknown name is reported and skipped.
ResolveStyleLayers(names, call, styles) ==
  LET Round(k, r) ==
        IF names[k] \in DOMAIN styles THEN [r EXCEPT !.declarations = Over(styles[names[k]], @)]
        ELSE [r EXCEPT !.codes = Append(@, "EM0502")]
      bundles == Loop(Len(names), [declarations |-> NoDeclarations, codes |-> <<>>], Round)
  IN [bundles EXCEPT !.declarations = Over(call, @)]

\* apply_root_styles.
\* Mutant: what the root says itself wins.
ApplyRootStylesWeakly(tag, additions) == [tag EXCEPT !.style = Over(@, additions)]
ApplyRootStyles(tag, additions) == [tag EXCEPT !.style = Over(additions, @)]

-----------------------------------------------------------------------------
\* Whether a piece of a kind starts with a unit.
StartsAt(g, kind, i) == g.html[i].of.kind = kind /\ g.html[i].part = 1

\* The media rules of the registry, as one block in front of the first </head>
\* or of everything; put in from its end to its start.
MediaBlock == [kind |-> "style", media |-> TRUE, rules |-> <<>>]
MediaOrigins(media) == <<media[1]>> \o media \o <<Last(media)>>
InsertMedia(g, media) ==
  IF media = <<>> THEN g
  ELSE LET origins == MediaOrigins(media)
           units == UnitsOf(MediaBlock, Len(origins))
           heads == {i \in DOMAIN g.html : StartsAt(g, "head", i)}
           position == IF heads = {} THEN 0 ELSE Min(heads) - 1
           Put(k, h) == LET i == Len(origins) + 1 - k IN
                        InsertHtml(h, position, <<units[i]>>, origins[i])
       IN Loop(Len(origins), g, Put)

\* The first part of inline_css: blocks without @media go, and leave the rules
\* of their classes.
Strip(g) ==
  LET Round(i, s) ==
        IF ~ StartsAt(g, "style", i) THEN s
        ELSE LET block == g.html[i].of
                 end == i - 1 + g.html[i].parts
                 before == AppendSlice(s.output, g, s.position, i - 1)
             IN [output |-> IF block.media THEN AppendSlice(before, g, i - 1, end) ELSE before,
                 position |-> end,
                 classes |-> IF block.media THEN s.classes ELSE s.classes \o block.rules]
      s == Loop(Len(g.html), [output |-> NoHtml, position |-> 0, classes |-> <<>>], Round)
  IN [html |-> AppendSlice(s.output, g, s.position, Len(g.html)), classes |-> s.classes]

\* The rules of a tag's classes in the order of the document, then its own style.
\* Mutant: the rules win over the tag's own style.
MergedOwnFirst(tag, classes) ==
  LET Round(k, merged) ==
        IF classes[k].class \in tag.classes THEN Over(classes[k].set, merged) ELSE merged
  IN Loop(Len(classes), tag.style, Round)
Merged(tag, classes) ==
  LET Round(k, merged) ==
        IF classes[k].class \in tag.classes THEN Over(classes[k].set, merged) ELSE merged
  IN Over(tag.style, Loop(Len(classes), NoDeclarations, Round))

\* The second part: a tag that changes comes as a whole from where it starts.
Restyle(g, classes) ==
  LET Round(i, s) ==
        IF ~ StartsAt(g, "tag", i) THEN s
        ELSE LET tag == g.html[i].of
                 end == i - 1 + g.html[i].parts
                 before == AppendSlice(s.output, g, s.position, i - 1)
                 merged == IF tag.classes = {} THEN tag.style ELSE Merged(tag, classes)
                 changed == UnitsOf([tag EXCEPT !.style = merged], g.html[i].parts + 1)
             IN [output |-> IF merged = tag.style THEN AppendSlice(before, g, i - 1, end)
                            ELSE AppendHtml(before, changed, SegmentAt(g, i - 1)),
                 position |-> end]
      s == Loop(Len(g.html), [output |-> NoHtml, position |-> 0], Round)
  IN AppendSlice(s.output, g, s.position, Len(g.html))

InlineCss(g) ==
  LET without == Strip(g) IN
  IF without.classes = <<>> THEN without.html ELSE Restyle(without.html, without.classes)

Finish(g, media) == InlineCss(InsertMedia(g, media))

-----------------------------------------------------------------------------
(***************************************************************************)
(* The reference: a document as a sequence of pieces with the origin of    *)
(* every unit, without offsets and segments.                               *)
(***************************************************************************)
HtmlOf(pieces) ==
  FlattenSeq([i \in DOMAIN pieces |-> UnitsOf(pieces[i].of, Len(pieces[i].origins))])
OriginsOf(pieces) == FlattenSeq([i \in DOMAIN pieces |-> pieces[i].origins])
Rendered(pieces) ==
  LET html == HtmlOf(pieces)
      Round(i, g) == AppendHtml(g, <<html[i]>>, OriginsOf(pieces)[i])
  IN Loop(Len(html), NoHtml, Round)

IsPlainBlock(p) == p.of.kind = "style" /\ ~p.of.media
RulesOf(pieces) ==
  FlattenSeq([i \in DOMAIN pieces |-> IF IsPlainBlock(pieces[i]) THEN pieces[i].of.rules ELSE <<>>])
StyleOf(tag, rules) ==
  Cascaded([i \in DOMAIN rules |-> IF rules[i].class \in tag.classes THEN rules[i].set
                                   ELSE NoDeclarations] \o <<tag.style>>)
Styled(p, rules) ==
  IF p.of.kind # "tag" \/ StyleOf(p.of, rules) = p.of.style THEN p
  ELSE [of |-> [p.of EXCEPT !.style = StyleOf(p.of, rules)],
        origins |-> [k \in 1..(Len(p.origins) + 1) |-> p.origins[1]]]
WithMedia(pieces, media) ==
  LET heads == {i \in DOMAIN pieces : pieces[i].of.kind = "head"}
      block == [of |-> MediaBlock, origins |-> MediaOrigins(media)]
  IN IF media = <<>> THEN pieces
     ELSE InsertAt(pieces, IF heads = {} THEN 1 ELSE Min(heads), block)
Expected(pieces, media) ==
  LET all == WithMedia(pieces, media) IN
  [i \in DOMAIN all |-> IF IsPlainBlock(all[i]) THEN [all[i] EXCEPT !.origins = <<>>]
                        ELSE Styled(all[i], RulesOf(all))]

\* Inlining gives each tag the declarations CSS would: of its classes the last
\* rule of the document, but its own style before all; media rules stay together,
\* in order, and alone (css.cpp:173-265, compiler.cpp:94-121).
TagsCascade(pieces, media) ==
  Finish(Rendered(pieces), media).html = HtmlOf(Expected(pieces, media))

\* Whatever is inserted, cut out and restyled, each unit of the result still
\* knows where it came from: findings are reported at the right source
\* (provenance.cpp:22-72, css.cpp:20-38).
OriginsKept(pieces, media) ==
  LET result == Finish(Rendered(pieces), media) IN
  [i \in DOMAIN result.html |-> SegmentAt(result, i - 1)] = OriginsOf(Expected(pieces, media))

\* "component defaults, named style, then explicit inline declarations"
\* (EMAIL-MARKUP.md:132-133; styles.cpp:37-60, css.cpp:79-96).
LayersCascade(tag, names, call, styles) ==
  LET resolved == ResolveStyleLayers(names, call, styles)
      Layer(name) == IF name \in DOMAIN styles THEN styles[name] ELSE NoDeclarations
  IN /\ ApplyRootStyles(tag, resolved.declarations).style
          = Cascaded(<<tag.style>> \o [i \in DOMAIN names |-> Layer(names[i])] \o <<call>>)
     /\ resolved.codes = <<>> <=> \A i \in DOMAIN names : names[i] \in DOMAIN styles
=============================================================================
