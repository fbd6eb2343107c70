---------------------------- MODULE Transcript -----------------------------
(***************************************************************************)
(* From the bytes of a transcript to the card of its turn.  Claude appends *)
(* lines, some of them in two writes; the pipeline takes the size of the   *)
(* file, reads from its offset to the end, parses the lines it finds       *)
(* whole, and renders the turn they belong to, again at every flush.  The  *)
(* images and diagrams a flush needs are uploaded once and remembered.     *)
(*                                                                         *)
(* A line is a JSON object, but str.splitlines also cuts at the Unicode    *)
(* separators that a JSON string may hold as they are.  What is left of    *)
(* such a line is malformed and skipped; unless a piece from the middle of *)
(* it reads as a JSON scalar, and then the handler raises.                 *)
(*                                                                         *)
(* All lines belong to one turn, and requests succeed: turns, requests and *)
(* restarts are the subject of Outbound.                                   *)
(***************************************************************************)
EXTENDS Card

CONSTANTS
    Lines,      \* the lines Claude writes
    Styles,     \* "minimal", "rich" or "full"
    MaxLines,   \* bound: lines in the transcript
    MaxTorn     \* bound: lines written in two pieces

ASSUME BoundsAssumption == MaxLines \in Nat /\ MaxTorn \in Nat
ASSUME LinesAssumption ==
    \A line \in Lines :
        /\ IsSeq(line.parts) /\ \A part \in RangeOf(line.parts) : IsPart(part)
        /\ line.cut \in {"no", "malformed", "head", "tail"}

VARIABLES
    lines,              \* what each line says
    file,               \* the writes: [line, piece]
    offset, end,        \* jsonl_offset, and where the last read ended
    handled,            \* the numbers of the lines of the current turn
    due,                \* the flush of what was handled: none, "now" or "later"
    keys, failed,       \* images uploaded, and images never tried again
    drawn, undrawn,     \* diagrams drawn, and diagrams never tried again
    style,              \* render_style of the binding
    card,               \* the card: its elements, and the whole turn's before the caps
    split, doubled,     \* history: lines the offset fell into, bytes read twice
    dropped             \* history: lines after one that raised, in its batch

reading == <<offset, end, handled, split, doubled, dropped>>
caches == <<keys, failed, drawn, undrawn>>
vars == <<lines, file, reading, due, caches, style, card>>

Pieces == {"whole", "head", "tail"}
Turn == [i \in DOMAIN handled |-> lines[handled[i]]]

Init ==
    /\ lines = << >> /\ file = << >> /\ offset = 0 /\ end = 0
    /\ handled = << >> /\ due = "none"
    /\ keys = {} /\ failed = {} /\ drawn = {} /\ undrawn = {}
    /\ style \in Styles
    /\ card = [els |-> << >>, all |-> << >>]
    /\ split = {} /\ doubled = FALSE /\ dropped = {}

-----------------------------------------------------------------------------
(* Claude.                                                                 *)

Torn == {i \in DOMAIN file : file[i].piece = "head"}
HalfWritten == file # << >> /\ Last(file).piece = "head"

Write(line) ==
    /\ Len(lines) < MaxLines /\ ~HalfWritten
    /\ lines' = Append(lines, line)
    /\ \E piece \in IF Cardinality(Torn) < MaxTorn THEN {"whole", "head"} ELSE {"whole"} :
           file' = Append(file, [line |-> Len(lines) + 1, piece |-> piece])
    /\ UNCHANGED <<reading, due, caches, style, card>>

Finish ==
    /\ HalfWritten
    /\ file' = Append(file, [line |-> Len(lines), piece |-> "tail"])
    /\ UNCHANGED <<lines, reading, due, caches, style, card>>

-----------------------------------------------------------------------------
(* process_backlog reads.                                                  *)

\* The writes after one place with which a line is there whole.
Whole(from) ==
    {i \in from + 1 .. Len(file) :
        file[i].piece = "whole" \/ (file[i].piece = "tail" /\ i > from + 1)}

\* splitlines cuts the line of a write, or it does not.  A scalar is in one of the
\* two writes of a torn line, and reading it raises.
Cut(i) == lines[file[i].line].cut
Raising(from) ==
    {i \in from + 1 .. Len(file) : Cut(i) \in Pieces /\ file[i].piece \in {"whole", Cut(i)}}

\* Of the lines that are there, those before the first that raises are handled.
Ends(from) == {i \in Whole(from) : Cut(i) = "no" /\ \A j \in Raising(from) : i < j}
Parsed(from) == Picked([i \in DOMAIN file |-> file[i].line], Ends(from))
Unread(from) == {file[i].line : i \in {j \in Whole(from) : \E k \in Raising(from) : k < j}}

\* The size was taken a moment before the bytes were read, and becomes the offset.
KeepOffset(size) == offset' = Len(file) - (size - offset)  \* mutant
MoveOffset(size) == offset' = size

ReadBatch ==
    \E size \in (IF end > offset THEN end ELSE offset + 1) .. Len(file) :
        /\ due # "now" /\ due' = IF Raising(offset) = {} THEN "now" ELSE "later"
        /\ handled' = handled \o Parsed(offset)
        /\ MoveOffset(size) /\ end' = Len(file)
        /\ split' = split \cup (IF file[size].piece = "head" THEN {file[size].line} ELSE {})
        /\ doubled' = (doubled \/ size < Len(file))
        /\ dropped' = dropped \cup Unread(offset)
        /\ UNCHANGED <<lines, file, caches, style, card>>

-----------------------------------------------------------------------------
(* _flush_current_turn.                                                    *)

\* Each image is tried once; what was uploaded is remembered, and so is a failure.
ForgetOld(old, ok) == ok  \* mutant
Remember(old, ok) == old \cup ok
NotUploaded(wanted, known, lost) == wanted \ known  \* mutant
Untried(wanted, known, lost) == (wanted \ known) \ lost
Upload(wanted, known, lost) ==
    {[known |-> Remember(known, ok),
      lost |-> lost \cup (Untried(wanted, known, lost) \ ok)] :
        ok \in SUBSET Untried(wanted, known, lost)}

Show(all, els) == card' = IF els = << >> THEN card ELSE [els |-> els, all |-> all]

\* At the end of a batch, or in the quiet after it.  The flush of an animation in
\* between repeats the flush before it; after a batch that raised it is the first.
\* (TLC evaluates all and els once if bound.)
Flush(live) ==
    /\ handled # << >> /\ (due # "none" \/ ~live)
    /\ \E images \in Upload(ImagePaths(Turn), keys, failed),
          diagrams \in IF live THEN {[known |-> drawn, lost |-> undrawn]}
                       ELSE Upload(Diagrams(Turn), drawn, undrawn) :
           /\ keys' = images.known /\ failed' = images.lost
           /\ drawn' = diagrams.known /\ undrawn' = diagrams.lost
           /\ \E all \in {Elements(Turn, images.known,
                                    IF live THEN {} ELSE diagrams.known, style)} :
                  \E els \in {Capped(all, Turn, live)} : Show(all, els)
    /\ due' = "none"
    /\ UNCHANGED <<lines, file, reading, style>>

\* There is no turn yet.
FlushNothing ==
    /\ due = "now" /\ handled = << >> /\ due' = "none"
    /\ UNCHANGED <<lines, file, reading, caches, style, card>>

-----------------------------------------------------------------------------

Next ==
    \/ \E line \in Lines : Write(line)
    \/ Finish
    \/ ReadBatch
    \/ \E live \in BOOLEAN : Flush(live)
    \/ FlushNothing

Spec == Init /\ [][Next]_vars

-----------------------------------------------------------------------------
(* Correctness.                                                            *)

\* Every variable has its type; offsets are in the file, and what was tried and
\* failed was not uploaded as well.
TypeOK ==
    /\ lines \in Seq(Lines) /\ Len(lines) <= MaxLines
    /\ file \in Seq([line : DOMAIN lines, piece : Pieces])
    /\ offset \in 0 .. end /\ end \in 0 .. Len(file)
    /\ handled \in Seq(DOMAIN lines) /\ due \in {"none", "now", "later"}
    /\ keys \cap failed = {} /\ drawn \cap undrawn = {}
    /\ style \in Styles
    /\ split \subseteq DOMAIN lines /\ doubled \in BOOLEAN /\ dropped \subseteq DOMAIN lines

Places(line) == {i \in DOMAIN file : file[i].line = line}
Behind(line) ==
    /\ \E i \in Places(line) : file[i].piece \in {"whole", "tail"}
    /\ \A i \in Places(line) : i <= offset
Times(line) == Cardinality({i \in DOMAIN handled : handled[i] = line})

\* A line behind the offset was handled, and once, however its writes and the reads
\* interleave, unless the offset came to rest inside it, bytes were read twice,
\* splitlines cut it, or a line that it cut raised before it in the same batch.
LinesHandledOnce ==
    \A line \in DOMAIN lines :
        /\ Behind(line) /\ lines[line].cut = "no"
           => line \in split \cup dropped \/ Times(line) >= 1
        /\ doubled \/ Times(line) <= 1

Content == {"text", "placeholder", "img", "tool"}
Tagged(tags) == Picked(card.els, {i \in DOMAIN card.els : card.els[i].tag \in tags})
Body == Tagged(Content)
Notes == Tagged({"note"})
BytesOf(es) ==
    LET sum[i \in 0 .. Len(es)] == IF i = 0 THEN 0 ELSE sum[i - 1] + es[i].size
    IN  sum[Len(es)]
Fits(n) == n <= MaxElements - 2 /\ (n <= 1 \/ BytesOf(SubSeq(card.all, 1, n)) <= Budget)

\* The card shows as much of the beginning of its turn as both limits let it, and
\* when something is missing one note says how much: the number is exact unless the
\* bytes cut off the note of the elements, and then it is too small.  Not counting
\* the notes at its end, the card is within Feishu's limits, or has one element.
CapsAreHonest ==
    LET shown == Len(Body)
        missing == Len(card.all) - shown
    IN  /\ IsPrefix(Body, card.all)
        /\ Fits(shown)
        /\ missing > 0 => ~Fits(shown + 1)
        /\ IF missing = 0 THEN Notes = << >>
           ELSE /\ Len(Notes) = 1 /\ Notes[1].of \in 1 .. missing
                /\ Notes[1].of = missing \/ Len(card.all) > MaxElements - 2

\* A flush never takes anything out of a card without a note that says so: what a
\* line showed it goes on showing, drawn or as source, and an image stays.
Same(x, y) == x.at = y.at /\ (x.tag = "img" /\ y.tag = "img" => x.of = y.of)
NothingVanishes ==
    [][\A x \in RangeOf(Body) : \E y \in RangeOf(card'.els) : y.tag = "note" \/ Same(x, y)]_vars
=============================================================================
