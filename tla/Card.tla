------------------------------- MODULE Card --------------------------------
(***************************************************************************)
(* render_turn_to_card: the elements of a turn's card, and the two caps    *)
(* that keep a card below the limits of Feishu.  A turn is a sequence of   *)
(* lines, a line a sequence of parts; of a text only its length and what   *)
(* the renderer finds in it are kept.                                      *)
(*   line:    [parts, usage]    usage: it reports tokens                   *)
(*   text:    [type, segs], each segment [code, chars, images]: a diagram  *)
(*            with that source, or prose (None) that names those images,   *)
(*            each of them once                                            *)
(*   image:   [type, path]                                                 *)
(*   use:     [type, id, input]               a call of a tool             *)
(*   result:  [type, id, chars, images, code] what it returned             *)
(***************************************************************************)
EXTENDS Integers, SequencesExt

CONSTANTS
    CharLimit,    \* MARKDOWN_CHAR_LIMIT and TOOL_BLOCK_CHAR_LIMIT (4000)
    Mark,         \* characters of "truncated"
    Pending,      \* characters of "pending"
    Width,        \* bytes of a character
    Overhead,     \* bytes of an element without its content
    MaxElements,  \* MAX_ELEMENTS_PER_CARD                         (40)
    Budget,       \* CARD_BODY_BYTE_BUDGET                      (28000)
    None          \* no source, no result, nothing

ASSUME CapsAssumption ==
    /\ CharLimit \in Nat /\ Mark \in Nat /\ Pending \in Nat /\ Width \in Nat
    /\ Overhead \in Nat /\ MaxElements \in Nat \ {0, 1, 2} /\ Budget \in Nat

RangeOf(s) == {s[i] : i \in DOMAIN s}
IsSeq(s) == s \in Seq(RangeOf(s))
IsSegment(seg) == seg.chars \in Nat /\ IsSeq(seg.images)
IsPart(part) ==
    /\ part # None
    /\ \/ part.type = "text" /\ IsSeq(part.segs) /\ \A seg \in RangeOf(part.segs) : IsSegment(seg)
       \/ part.type = "image"
       \/ part.type = "use" /\ part.input \in Nat
       \/ part.type = "result" /\ part.chars \in Nat /\ IsSeq(part.images)

-----------------------------------------------------------------------------
(* Elements: what they are, the place in the turn they come from, and the  *)
(* bytes they take.                                                        *)

Element(tag, at, of, chars) ==
    [tag |-> tag, at |-> at, of |-> of, size |-> Overhead + Width * chars]

\* One after the other (as FlattenSeq, which is slow to evaluate).
Joined(seqs) ==
    LET all[i \in 0 .. Len(seqs)] == IF i = 0 THEN << >> ELSE all[i - 1] \o seqs[i]
    IN  all[Len(seqs)]

\* The elements of a sequence at some of its places, in order.
Picked(s, places) ==
    Joined([i \in DOMAIN s |-> IF i \in places THEN <<s[i]>> ELSE << >>])

Truncated(chars) == IF chars <= CharLimit THEN chars ELSE CharLimit + Mark
Markdown(at, chars) == Element("text", at, None, Truncated(chars))
Image(at, path) == Element("img", at, path, 0)
Note(n) == Element("note", << >>, n, 0)

InlineImages(at, images, keys) ==
    Picked([i \in DOMAIN images |-> Image(at, images[i])],
           {i \in DOMAIN images : images[i] \in keys})

\* Prose, a diagram that was drawn, or the source of one that was not.
Segment(at, seg, keys, drawn) ==
    IF seg.code = None
    THEN IF seg.chars = 0 THEN << >>
         ELSE <<Markdown(at, seg.chars)>> \o InlineImages(at, seg.images, keys)
    ELSE IF seg.code \in drawn
         THEN <<Element("placeholder", at, seg.code, 0), Image(at, seg.code)>>
         ELSE <<Markdown(at, seg.chars)>>

-----------------------------------------------------------------------------
(* Tools.                                                                  *)

IsResult(part, id) == part.type = "result" /\ part.id = id
HasResult(line, id) == \E i \in DOMAIN line.parts : IsResult(line.parts[i], id)

\* The first result of that call in the last line that has one.
LastLine(turn, id) == SelectLastInSeq(turn, LAMBDA l : HasResult(l, id))
ResultOf(turn, id) ==
    LET l == LastLine(turn, id)
    IN  IF l = 0 THEN None
        ELSE LET parts == turn[l].parts
             IN  parts[SelectInSeq(parts, LAMBDA p : IsResult(p, id))]

\* A pending call is not truncated: its input is shown whole in the full style.
BodyChars(input, result, style) ==
    LET shown == IF style = "full" THEN input ELSE 0
    IN  IF result = None THEN shown + Pending ELSE Truncated(shown + result.chars)

Tool(at, part, turn, keys, style) ==
    LET result == ResultOf(turn, part.id)
        block == Element("tool", at, IF result = None THEN None ELSE result.chars,
                         BodyChars(part.input, result, style))
    IN  (IF style = "minimal" THEN << >> ELSE <<block>>)
        \o (IF result = None THEN << >> ELSE InlineImages(at, result.images, keys))

-----------------------------------------------------------------------------
(* The card.                                                               *)

Part(at, part, turn, keys, drawn, style) ==
    CASE part.type = "text" ->
            Joined([s \in DOMAIN part.segs |->
                            Segment(Append(at, s), part.segs[s], keys, drawn)])
      [] part.type = "image" ->
            IF part.path \in keys THEN <<Image(at, part.path)>> ELSE << >>
      [] part.type = "use" -> Tool(at, part, turn, keys, style)
      [] part.type = "result" -> << >>

Elements(turn, keys, drawn, style) ==
    Joined([l \in DOMAIN turn |->
        Joined([p \in DOMAIN turn[l].parts |->
            Part(<<l, p>>, turn[l].parts[p], turn, keys, drawn, style)])])

CapSilently(es) ==  \* mutant: nothing tells that elements are missing
    SubSeq(es, 1, IF Len(es) > MaxElements - 2 THEN MaxElements - 2 ELSE Len(es))
CapElements(es) ==
    LET most == MaxElements - 2
    IN  IF Len(es) <= most THEN es ELSE Append(SubSeq(es, 1, most), Note(Len(es) - most))

\* Whether the next element would not fit; the first one always does.
Over(total, el) == total + el.size > Budget

CapBytes(es) ==
    LET acc[i \in 0 .. Len(es)] ==
            IF i = 0 THEN [kept |-> 0, total |-> 0]
            ELSE LET prev == acc[i - 1]
                 IN  IF prev.kept < i - 1 \/ (i > 1 /\ Over(prev.total, es[i])) THEN prev
                     ELSE [kept |-> i, total |-> prev.total + es[i].size]
        kept == acc[Len(es)].kept
    IN  IF kept = Len(es) THEN es ELSE Append(SubSeq(es, 1, kept), Note(Len(es) - kept))

Footer(tag) == Element(tag, << >>, None, 0)
Capped(all, turn, live) ==
    CapBytes(CapElements(all))
    \o (IF \E l \in DOMAIN turn : turn[l].usage THEN <<Footer("tokens")>> ELSE << >>)
    \o (IF live THEN <<Footer("spinner")>> ELSE << >>)

-----------------------------------------------------------------------------
(* What is collected from a turn for upload.                               *)

PartsOf(turn) == UNION {RangeOf(turn[l].parts) : l \in DOMAIN turn}
ImagesIn(part) ==
    CASE part.type = "text" -> UNION {RangeOf(s.images) : s \in RangeOf(part.segs)}
      [] part.type = "image" -> {part.path}
      [] part.type = "use" -> {}
      [] part.type = "result" -> RangeOf(part.images)
ImagePaths(turn) == UNION {ImagesIn(p) : p \in PartsOf(turn)}
CodesIn(part) ==
    CASE part.type = "text" -> {s.code : s \in RangeOf(part.segs)}
      [] part.type = "result" -> {part.code}
      [] OTHER -> {}
Diagrams(turn) == (UNION {CodesIn(p) : p \in PartsOf(turn)}) \ {None}
=============================================================================
